---- MODULE Spec2Model ----
(***************************************************************************)
(* Order verification and consumption authorisation of the provider        *)
(* service: verify_order_tx (utils/datatoken.py) and the compute workflow   *)
(* validators (validation/algo.py).                                         *)
(***************************************************************************)
EXTENDS Integers, Sequences, FiniteSets, TLC

VARIABLES
    vo,      \* the current call of verify_order_tx: its inputs, outcome, chain calls
    ledger,  \* the ConsumptionLedger store shared by all requests
    rq       \* per worker: the request being validated and the validator's fields

vars == <<vo, ledger, rq>>

\* Python's None.
None == "None"

(***************************************************************************)
(* Strings that the code normalises are sequences of characters.           *)
(***************************************************************************)
LowerChar(c) ==
    CASE c = "A" -> "a"
      [] c = "B" -> "b"
      [] c = "C" -> "c"
      [] c = "D" -> "d"
      [] c = "X" -> "x"
      [] OTHER -> c

\* str.lower()
lower(s) == [i \in 1..Len(s) |-> LowerChar(s[i])]

\* eth_utils.remove_0x_prefix: strips a leading "0x" or "0X".
remove_0x_prefix(s) ==
    IF Len(s) >= 2 /\ s[1] = "0" /\ s[2] \in {"x", "X"}
    THEN SubSeq(s, 3, Len(s))
    ELSE s

\* A Python value that is an int or a str, tagged with its type.
PyInt(n) == [t |-> "int", v |-> n, s |-> ""]
PyStr(s) == [t |-> "str", v |-> 0, s |-> s]

\* str(): an int prints as its decimal digits, a str is itself.
str(x) ==
    IF x.t = "str" THEN x.s
    ELSE CASE x.v = 0 -> "0"
           [] x.v = 1 -> "1"
           [] x.v = 2 -> "2"
           [] OTHER -> "n"

(***************************************************************************)
(* Errors raised by verify_order_tx, by the text of their message.         *)
(***************************************************************************)
ConnectionClosed    == "ConnectionClosed"
TimeExhausted       == "TimeExhausted"
NoReceipt           == "Failed to get tx receipt for the startOrder transaction.."
TransactionFailed   == "order transaction failed."
NoOrderEvent        == "Cannot find the event for the order transaction"
AmbiguousOrderEvent == "Multiple order events in the same transaction !!!"
AssetMismatch       == "asset-id does not match the datatoken id."
ServiceMismatch     == "The asset id (DID) or service id in the event does not match the requested asset."
Expired             == "The order has expired."
ExcessiveMarketFee  == "marketFee exceeds the expected maximum"
SenderMismatch      == "sender of order transaction is not the consumer/payer."
NoMatchingTransfer  == "receiver is not found in the transfer events."
InsufficientPayment == "transferred value does meet the service cost"

\* Fee rates, in units of 10^15 wei per token (to_wei("0.001") = 10^15); the
\* datatoken contract divides by BASE = 10^18, which is 1000 in these units.
OPF_FEE_PER_TOKEN == 1
MAX_MARKET_FEE_PER_TOKEN == 1

\* DataTokenTemplate.calculateFee(amount, feePercentage) = amount * fee / BASE.
calculateFee(amount, feePercentage) == (amount * feePercentage) \div 1000

(***************************************************************************)
(* verify_order_tx                                                         *)
(***************************************************************************)
\* The outcome of a call that raises: the error, the chain calls made so far and
\* the local target_amount (<<>> while it is not assigned).
Raise(error, calls, target_amount) ==
    [raised |-> error, ret |-> <<>>, calls |-> calls, target_amount |-> target_amount]

\* The outcome of a call that returns.
Return(value, calls, target_amount) ==
    [raised |-> None, ret |-> <<value>>, calls |-> calls, target_amount |-> target_amount]

\* Mutant of FetchReceipt: a retry that fails with ConnectionClosed is retried too.
FetchReceipt_RetryTwice(fetch) ==
    IF fetch[1] = ConnectionClosed /\ fetch[2] = ConnectionClosed
    THEN [outcome |-> fetch[3],
          calls |-> <<"wait_for_transaction_receipt", "wait_for_transaction_receipt",
                      "wait_for_transaction_receipt">>]
    ELSE IF fetch[1] = ConnectionClosed
    THEN [outcome |-> fetch[2],
          calls |-> <<"wait_for_transaction_receipt", "wait_for_transaction_receipt">>]
    ELSE [outcome |-> fetch[1], calls |-> <<"wait_for_transaction_receipt">>]

\* get_tx_receipt is tried once and, only if that raised ConnectionClosed, once
\* more; fetch lists what the node answers to each attempt.
FetchReceipt(fetch) ==
    IF fetch[1] = ConnectionClosed
    THEN [outcome |-> fetch[2],
          calls |-> <<"wait_for_transaction_receipt", "wait_for_transaction_receipt">>]
    ELSE [outcome |-> fetch[1], calls |-> <<"wait_for_transaction_receipt">>]

\* Mutant of StatusFailed: a reverted receipt counts as failed only when it holds
\* no logs.
StatusFailed_OnlyWithoutLogs(tx_receipt) ==
    tx_receipt.status = 0 /\ tx_receipt.logs = <<>>

\* tx_receipt.status == 0
StatusFailed(tx_receipt) == tx_receipt.status = 0

\* contract.events.<event>().processReceipt(tx_receipt, errors=DISCARD): the logs
\* of the receipt that decode as event, in receipt order. Decoding goes by the
\* event signature (the topic) and the data layout; a log that does not decode is
\* dropped silently. The emitting address of a log is not looked at.
processReceipt(event, tx_receipt) ==
    SelectSeq(tx_receipt.logs, LAMBDA log : log.topic = event /\ log.wellFormed)

\* order_log = event_logs[0] if event_logs else None; not order_log
OrderEventMissing(event_logs) == event_logs = <<>>

\* Mutant of SingleOrderEvent: several order events are let through.
SingleOrderEvent_AtLeastOne(event_logs) == Len(event_logs) >= 1

\* len(event_logs) == 1
SingleOrderEvent(event_logs) == Len(event_logs) = 1

\* asset_id == remove_0x_prefix(contract.address).lower()
AssetIdMatches(did, contract) ==
    lower(remove_0x_prefix(did)) = lower(remove_0x_prefix(contract.address))

\* str(order_log.args.serviceId) != str(service.index)
ServiceIdDiffers(order_log, service) ==
    str(PyInt(order_log.args.serviceId)) /= str(service.index)

\* Mutant of OrderExpired: the comparison is not strict.
OrderExpired_NotStrict(service_timeout, timestamp_delta) ==
    service_timeout /= 0 /\ timestamp_delta >= service_timeout

\* service_timeout != 0 and timestamp_delta > service_timeout
OrderExpired(service_timeout, timestamp_delta) ==
    service_timeout /= 0 /\ timestamp_delta > service_timeout

\* order_log.args.mrktFeeCollector and order_log.args.marketFee > 0
\* (a str is true unless it is empty)
MarketFeeCollected(order_log) ==
    order_log.args.mrktFeeCollector /= "" /\ order_log.args.marketFee > 0

\* Mutant of MarketFeeWithinMax: the tolerance of 5 is left out.
MarketFeeWithinMax_NoTolerance(order_log, max_market_fee) ==
    order_log.args.marketFee <= max_market_fee

\* order_log.args.marketFee <= (max_market_fee + 5)
MarketFeeWithinMax(order_log, max_market_fee) ==
    order_log.args.marketFee <= max_market_fee + 5

\* target_amount before the market fee is considered
BaseTargetAmount(amount) == amount - calculateFee(amount, OPF_FEE_PER_TOKEN)

\* target_amount once the (admissible) market fee is taken off
TargetAmount(amount, order_log) ==
    IF MarketFeeCollected(order_log)
    THEN BaseTargetAmount(amount) - order_log.args.marketFee
    ELSE BaseTargetAmount(amount)

\* sender not in [order_log.args.consumer, order_log.args.payer]
SenderNotConsumerOrPayer(sender, tx, order_log) ==
    sender \notin {order_log.args.consumer, order_log.args.payer}

\* Mutant of TransfersTo: the transfers are not grouped by destination.
TransfersTo_AnyReceiver(receiver, transfer_logs) == transfer_logs

\* receiver_to_transfers[receiver]: the transfers addressed to receiver, in log
\* order; empty when receiver is no key of the dict.
TransfersTo(receiver, transfer_logs) ==
    SelectSeq(transfer_logs, LAMBDA tr : tr.args.to = receiver)

\* Mutant of SortedByValue: the transfers stay in log order.
SortedByValue_LogOrder(trs) == trs

\* sorted(..., key=lambda x: x.args.value): stable, ascending (insertion of each
\* element after the elements that are not greater).
RECURSIVE SortedByValue(_)
SortedByValue(trs) ==
    IF trs = <<>> THEN <<>>
    ELSE LET n == Len(trs)
             init == SortedByValue(SubSeq(trs, 1, n - 1))
             x == trs[n]
             k == Cardinality({i \in 1..Len(init) : init[i].args.value <= x.args.value})
         IN SubSeq(init, 1, k) \o <<x>> \o SubSeq(init, k + 1, Len(init))

\* sum(tr.args.value for tr in transfers)
RECURSIVE SumValues(_)
SumValues(trs) ==
    IF trs = <<>> THEN 0 ELSE trs[1].args.value + SumValues(Tail(trs))

\* Mutant of PaymentTooSmall: the tolerance of 5 is left out.
PaymentTooSmall_NoTolerance(total, target_amount) == total < target_amount

\* total < (target_amount - 5)
PaymentTooSmall(total, target_amount) == total < target_amount - 5

\* Lines 119-143: the sender check, the transfer aggregation and the return.
VerifyTransfers(a, order_log, receiver, target_amount, calls) ==
    LET c1 == Append(calls, "get_transaction")
        tx == a.tx
    IN  IF SenderNotConsumerOrPayer(a.sender, tx, order_log)
        THEN Raise(SenderMismatch, c1, <<target_amount>>)
        ELSE
        LET c2 == Append(c1, "Transfer.processReceipt")
            transfer_logs == processReceipt("Transfer", a.receipt)
            mine == TransfersTo(receiver, transfer_logs)
        IN  IF mine = <<>>
            THEN Raise(NoMatchingTransfer, c2, <<target_amount>>)
            ELSE
            LET transfers == SortedByValue(mine)
                total == SumValues(transfers)
            IN  IF PaymentTooSmall(total, target_amount)
                THEN Raise(InsufficientPayment, c2, <<target_amount>>)
                ELSE Return([tx |-> tx, order_log |-> order_log,
                             transfer |-> transfers[Len(transfers)]], c2,
                            <<target_amount>>)

\* Lines 93-117: the expiry check and the fee computation.
VerifyTerms(a, order_log, receiver, calls) ==
    LET service_timeout == a.service.timeout
        timestamp_delta == a.now - order_log.args.timestamp
    IN  IF OrderExpired(service_timeout, timestamp_delta)
        THEN Raise(Expired, calls, <<>>)
        ELSE
        LET c1 == Append(calls, "calculateFee") IN
        IF MarketFeeCollected(order_log)
        THEN LET c2 == Append(c1, "calculateFee")
                 max_market_fee == calculateFee(a.amount, MAX_MARKET_FEE_PER_TOKEN)
             IN  IF ~MarketFeeWithinMax(order_log, max_market_fee)
                 THEN Raise(ExcessiveMarketFee, c2, <<BaseTargetAmount(a.amount)>>)
                 ELSE VerifyTransfers(a, order_log, receiver,
                                      TargetAmount(a.amount, order_log), c2)
        ELSE VerifyTransfers(a, order_log, receiver,
                             TargetAmount(a.amount, order_log), c1)

\* Mutant of VerifyOrderEvent: the service index is compared before the asset id.
VerifyOrderEvent_ServiceBeforeAsset(a, calls) ==
    LET receiver == a.contract.minter
        c1 == Append(calls, "minter")
        event_logs == processReceipt("OrderStarted", a.receipt)
        c2 == Append(c1, "OrderStarted.processReceipt")
    IN  IF OrderEventMissing(event_logs)
        THEN Raise(NoOrderEvent, c2, <<>>)
        ELSE IF ~SingleOrderEvent(event_logs)
        THEN Raise(AmbiguousOrderEvent, c2, <<>>)
        ELSE LET order_log == event_logs[1] IN
             IF ServiceIdDiffers(order_log, a.service)
             THEN Raise(ServiceMismatch, c2, <<>>)
             ELSE IF ~AssetIdMatches(a.did, a.contract)
             THEN Raise(AssetMismatch, c2, <<>>)
             ELSE VerifyTerms(a, order_log, receiver, c2)

\* Lines 68-91: the order event and the identity checks.
VerifyOrderEvent(a, calls) ==
    LET receiver == a.contract.minter
        c1 == Append(calls, "minter")
        event_logs == processReceipt("OrderStarted", a.receipt)
        c2 == Append(c1, "OrderStarted.processReceipt")
    IN  IF OrderEventMissing(event_logs)
        THEN Raise(NoOrderEvent, c2, <<>>)
        ELSE IF ~SingleOrderEvent(event_logs)
        THEN Raise(AmbiguousOrderEvent, c2, <<>>)
        ELSE LET order_log == event_logs[1] IN
             IF ~AssetIdMatches(a.did, a.contract)
             THEN Raise(AssetMismatch, c2, <<>>)
             ELSE IF ServiceIdDiffers(order_log, a.service)
             THEN Raise(ServiceMismatch, c2, <<>>)
             ELSE VerifyTerms(a, order_log, receiver, c2)

\* verify_order_tx(web3, contract, tx_id, did, service, amount, sender), with the
\* answers of the node (a.fetch, a.receipt, a.tx) and the clock (a.now) as inputs.
verify_order_tx(a) ==
    LET f == FetchReceipt(a.fetch) IN
    IF f.outcome \in {ConnectionClosed, TimeExhausted}
    THEN Raise(f.outcome, f.calls, <<>>)
    ELSE IF f.outcome = None
    THEN Raise(NoReceipt, f.calls, <<>>)
    ELSE IF StatusFailed(a.receipt)
    THEN Raise(TransactionFailed, f.calls, <<>>)
    ELSE VerifyOrderEvent(a, f.calls)

(***************************************************************************)
(* The calls of verify_order_tx that are explored.                         *)
(***************************************************************************)
\* Bounds of the receipts.
MaxOrderEvents == 2
MaxTransfers == 2

\* All sequences over S of length at most n.
RECURSIVE SeqsUpTo(_, _)
SeqsUpTo(S, n) ==
    IF n = 0 THEN {<<>>}
    ELSE LET shorter == SeqsUpTo(S, n - 1)
         IN  shorter \cup {Append(q, x) : q \in {r \in shorter : Len(r) = n - 1}, x \in S}

Minter   == "0xMinter"
Alice    == "0xAlice"
Bob      == "0xBob"
Carol    == "0xCarol"
Market   == "0xMarket"

\* The datatoken contract of the service (contract.address), and the addresses
\* that emit logs: that contract and another token.
ServiceToken == <<"0", "X", "a", "B">>
OtherToken == <<"0", "x", "C", "d">>
ContractAddresses == {ServiceToken}
Emitters == {ServiceToken, OtherToken}
Dids == {<<"A", "b">>, <<"0", "x", "c", "D">>}
ServiceIndexes == {PyInt(0), PyStr("1")}
Timeouts == {0, 10}
Clock == {100}
Timestamps == {89, 90}
Amounts == {5, 1000}
Collectors == {"", Market}
MarketFees == {0, 6, 7}
Senders == {Alice, Bob, Carol}
TxSenders == {Bob, Carol}
TransferValues == {1, 993}

\* A decoded-or-not log of a receipt.
OrderStartedLog(emitter, sid, ts, coll, fee) ==
    [topic |-> "OrderStarted", wellFormed |-> TRUE, address |-> emitter,
     args |-> [consumer |-> Alice, payer |-> Bob, serviceId |-> sid, timestamp |-> ts,
               mrktFeeCollector |-> coll, marketFee |-> fee]]

TransferLog(emitter, to, value) ==
    [topic |-> "Transfer", wellFormed |-> TRUE, address |-> emitter,
     args |-> [to |-> to, value |-> value]]

OrderLogs ==
    {OrderStartedLog(e, sid, ts, coll, fee) :
        e \in Emitters, sid \in {0, 1}, ts \in Timestamps,
        coll \in Collectors, fee \in MarketFees}

\* A further OrderStarted event of the same transaction.
MoreOrderLogs == {OrderStartedLog(ServiceToken, 0, 90, "", 0)}

OrderLogSeqs ==
    {<<>>} \cup {<<o>> \o more : o \in OrderLogs,
                                 more \in SeqsUpTo(MoreOrderLogs, MaxOrderEvents - 1)}

\* Logs that do not decode as the event asked for: another event, and a log
\* with the topic of OrderStarted whose data does not fit the ABI.
ExtraLogSeqs ==
    {<<>>,
     <<[topic |-> "Approval", wellFormed |-> TRUE, address |-> ServiceToken,
        args |-> [to |-> Minter, value |-> 993]],
       [topic |-> "OrderStarted", wellFormed |-> FALSE, address |-> ServiceToken,
        args |-> [to |-> Minter, value |-> 993]]>>}

TransferLogs ==
    {TransferLog(ServiceToken, Minter, v) : v \in TransferValues}
    \cup {TransferLog(ServiceToken, Carol, 993)}

Receipts ==
    {[status |-> st, logs |-> ol \o ex \o tl] :
        st \in {0, 1}, ol \in OrderLogSeqs, ex \in ExtraLogSeqs,
        tl \in SeqsUpTo(TransferLogs, MaxTransfers)}

\* What the node would answer to a first, a second and a third attempt to fetch
\* the receipt: a receipt, None, a closed connection or another error (the wait
\* timed out). Once the node has the receipt it keeps answering with it.
FetchOutcomes == {"receipt", None, ConnectionClosed, TimeExhausted}
FetchScripts ==
    {<<o1, o2, o3>> : o1 \in FetchOutcomes, o2 \in FetchOutcomes, o3 \in FetchOutcomes}
    \ {s \in FetchOutcomes \X FetchOutcomes \X FetchOutcomes :
          \E i \in 1..2 : s[i] = "receipt" /\ s[i + 1] /= "receipt"}

NoReceiptValue == [status |-> 1, logs |-> <<>>]

Idle == [pc |-> "idle"]

\* A call of verify_order_tx runs to its return or its exception.
VerifyOrderTx ==
    /\ vo.pc = "idle"
    /\ \E fetch \in FetchScripts, did \in Dids, address \in ContractAddresses,
          index \in ServiceIndexes, timeout \in Timeouts, amount \in Amounts,
          sender \in Senders, from \in TxSenders, now \in Clock :
       \E receipt \in (IF FetchReceipt(fetch).outcome = "receipt"
                       THEN Receipts ELSE {NoReceiptValue}) :
          LET a == [fetch |-> fetch, receipt |-> receipt,
                    contract |-> [address |-> address, minter |-> Minter],
                    did |-> did, service |-> [index |-> index, timeout |-> timeout],
                    amount |-> amount, sender |-> sender, now |-> now,
                    tx |-> [from |-> from]]
          IN  vo' = [pc |-> "done", a |-> a, out |-> verify_order_tx(a)]
    /\ UNCHANGED <<ledger, rq>>

\* The caller takes the result; the next call can start.
OrderDone ==
    /\ vo.pc = "done"
    /\ vo' = Idle
    /\ UNCHANGED <<ledger, rq>>

InitOrder ==
    /\ vo = Idle
    /\ ledger = {}
    /\ rq = <<>>

NextOrder == VerifyOrderTx \/ OrderDone

SpecOrder == InitOrder /\ [][NextOrder]_vars

(***************************************************************************)
(* The ConsumptionLedger (ocean_provider.utils.util, called by algo.py).    *)
(* A row binds (did, service_id, tx_id) to the consumer and a use counter;  *)
(* the table is keyed by tx_id, and the key is unique.                     *)
(***************************************************************************)
TransferAlreadyUsed == "TransferAlreadyUsed"

\* validate_transfer_not_used_for_other_service(did, service_id, transfer_tx_id,
\* consumer_address, token_address): raises when the transaction is bound to
\* another (did, service id) pair.
validate_transfer_not_used_for_other_service(rows, did, service_id, tx_id) ==
    IF \E r \in rows : r.tx_id = tx_id /\ (r.did /= did \/ r.service_id /= service_id)
    THEN TransferAlreadyUsed
    ELSE None

\* The rows after the row of the triple is created, or its counter raised.
Upsert(rows, did, service_id, tx_id, consumer, amount) ==
    IF \E r \in rows : r.did = did /\ r.service_id = service_id /\ r.tx_id = tx_id
    THEN {IF r.did = did /\ r.service_id = service_id /\ r.tx_id = tx_id
          THEN [r EXCEPT !.uses = @ + amount] ELSE r : r \in rows}
    ELSE rows \cup {[did |-> did, service_id |-> service_id, tx_id |-> tx_id,
                     consumer |-> consumer, uses |-> amount]}

\* Mutant of record_consume_request: the key of the table is not unique.
record_consume_request_NoUniqueKey(rows, did, service_id, tx_id, consumer, amount) ==
    [raised |-> None, rows |-> Upsert(rows, did, service_id, tx_id, consumer, amount)]

\* record_consume_request(did, service_id, order_tx_id, consumer_address,
\* token_address, amount): creates the row of the triple, or adds to its counter;
\* a second row for a tx_id is refused by the unique key (LedgerError).
record_consume_request(rows, did, service_id, tx_id, consumer, amount) ==
    IF \E r \in rows : r.tx_id = tx_id /\ (r.did /= did \/ r.service_id /= service_id)
    THEN [raised |-> TransferAlreadyUsed, rows |-> rows]
    ELSE [raised |-> None,
          rows |-> Upsert(rows, did, service_id, tx_id, consumer, amount)]

\* The use counter of a triple (0 when it has no row).
Uses(rows, did, service_id, tx_id) ==
    IF \E r \in rows : r.did = did /\ r.service_id = service_id /\ r.tx_id = tx_id
    THEN (CHOOSE r \in rows :
             r.did = did /\ r.service_id = service_id /\ r.tx_id = tx_id).uses
    ELSE 0

(***************************************************************************)
(* The metadata store and the other collaborators of the validators.       *)
(***************************************************************************)
PyNone == [t |-> "none", v |-> 0, s |-> ""]

\* Python truth of a tagged value, and of a str-or-None.
Truthy(x) == CASE x.t = "none" -> FALSE [] x.t = "int" -> x.v /= 0 [] OTHER -> x.s /= ""
TruthyStr(x) == x \notin {None, ""}

D1 == "did:op:D1"
D2 == "did:op:D2"
D3 == "did:op:D3"
ALG == "did:op:ALG"
DNF == "did:op:unknown"
Pub1 == "0xPub1"
PubA == "0xPubA"

\* msg_hash: a hash, taken as injective on the values that occur.
msg_hash(x) == <<"sha256", x>>

\* What the metadata store resolves. Every asset has the services 0 and 1; the
\* services of D3 are neither access nor compute services.
AssetType(did) == IF did = ALG THEN "algorithm" ELSE "dataset"
AssetOwner(did) == IF did = ALG THEN PubA ELSE Pub1
AssetExists(did) == did \in {D1, D2, D3, ALG}
ServiceType(did, sid) ==
    CASE did = D1 -> "compute"
      [] did = D2 -> (IF sid = PyInt(0) THEN "compute" ELSE "access")
      [] did = D3 -> "metadata"
      [] OTHER -> "access"
ServiceExists(did, sid) == AssetExists(did) /\ sid \in {PyInt(0), PyInt(1)}
DatatokenOf(did, sid) == <<"token", did>>
EncryptedFiles(did, sid) == <<"files", did, sid>>
ContainerOf(did) == <<"container", did>>

\* asset.get_service_by_id(service_id), with the privacy options (compute_dict)
\* the publisher set; <<>> stands for no service.
get_service_by_id(did, sid, compute_dict) ==
    IF ServiceExists(did, sid)
    THEN <<[id |-> sid, type |-> ServiceType(did, sid),
            datatoken_address |-> DatatokenOf(did, sid),
            compute_dict |-> compute_dict]>>
    ELSE <<>>

NoPolicy ==
    [allowRawAlgorithm |-> FALSE, publisherTrustedAlgorithms |-> <<>>,
     publisherTrustedAlgorithmPublishers |-> <<>>]

\* A publisherTrustedAlgorithms entry; <<>> is a checksum that is not pinned.
TrustedAlgo(did, filesChecksum, containerSectionChecksum) ==
    [did |-> did, filesChecksum |-> filesChecksum,
     containerSectionChecksum |-> containerSectionChecksum]

(***************************************************************************)
(* InputItemValidator                                                      *)
(***************************************************************************)
\* The result of a boolean-returning step: ok, or False with self.error set, or
\* an exception that no handler of the validator catches.
Ok == [kind |-> "ok", error |-> ""]
Fail(error) == [kind |-> "fail", error |-> error]
Crash(exception) == [kind |-> "exception", error |-> exception]

\* _validate_trusted_algos, lines 335-339: the owner of the algorithm against
\* the trusted publishers.
TrustedPublisherCheck(algorithm_did, trusted_publishers) ==
    IF trusted_publishers = <<>> THEN Ok
    ELSE IF ~AssetExists(algorithm_did) THEN Crash("AttributeError")
    ELSE IF \A i \in DOMAIN trusted_publishers :
               trusted_publishers[i] /= AssetOwner(algorithm_did)
    THEN Fail("this algorithm is not from a trusted publisher")
    ELSE Ok

\* Mutant of TrustedAlgorithmCheck: the container checksum that the entry pins
\* is not compared.
TrustedAlgorithmCheck_ContainerUnchecked(data, algorithm_did, trusted_algorithms) ==
    IF trusted_algorithms = <<>> THEN Ok
    ELSE IF \A i \in DOMAIN trusted_algorithms : trusted_algorithms[i].did /= algorithm_did
    THEN Fail("this algorithm did is not trusted.")
    ELSE
    LET last == CHOOSE i \in DOMAIN trusted_algorithms :
                    /\ trusted_algorithms[i].did = algorithm_did
                    /\ \A j \in DOMAIN trusted_algorithms :
                          trusted_algorithms[j].did = algorithm_did => j <= i
        allowed_files_checksum == trusted_algorithms[last].filesChecksum
        sid == data.algorithm.serviceId
    IN  IF ~AssetExists(algorithm_did) \/ ~ServiceExists(algorithm_did, sid)
        THEN Crash("AttributeError")
        ELSE IF allowed_files_checksum /= <<>>
                /\ msg_hash(EncryptedFiles(algorithm_did, sid)) /= allowed_files_checksum
        THEN Fail("filesChecksum for algorithm does not match")
        ELSE Ok

\* _validate_trusted_algos, lines 341-384: the did of the algorithm against the
\* trusted algorithms, then the checksums that the entry of the did pins (the
\* dict built from the list keeps the last entry of a did).
TrustedAlgorithmCheck(data, algorithm_did, trusted_algorithms) ==
    IF trusted_algorithms = <<>> THEN Ok
    ELSE IF \A i \in DOMAIN trusted_algorithms : trusted_algorithms[i].did /= algorithm_did
    THEN Fail("this algorithm did is not trusted.")
    ELSE
    LET last == CHOOSE i \in DOMAIN trusted_algorithms :
                    /\ trusted_algorithms[i].did = algorithm_did
                    /\ \A j \in DOMAIN trusted_algorithms :
                          trusted_algorithms[j].did = algorithm_did => j <= i
        trusted_algo_dict == trusted_algorithms[last]
        allowed_files_checksum == trusted_algo_dict.filesChecksum
        allowed_container_checksum == trusted_algo_dict.containerSectionChecksum
        sid == data.algorithm.serviceId
    IN  IF ~AssetExists(algorithm_did) \/ ~ServiceExists(algorithm_did, sid)
        THEN Crash("AttributeError")
        ELSE IF allowed_files_checksum /= <<>>
                /\ msg_hash(EncryptedFiles(algorithm_did, sid)) /= allowed_files_checksum
        THEN Fail("filesChecksum for algorithm does not match")
        ELSE IF allowed_container_checksum /= <<>>
                /\ msg_hash(ContainerOf(algorithm_did)) /= allowed_container_checksum
        THEN Fail("containerSectionChecksum for algorithm does not match")
        ELSE Ok

\* Mutant of _validate_trusted_algos: with trusted publishers configured the
\* result of the publisher check is returned.
_validate_trusted_algos_Either(data, algorithm_did, trusted_algorithms, trusted_publishers) ==
    IF trusted_algorithms = <<>> /\ trusted_publishers = <<>> THEN Ok
    ELSE IF trusted_publishers /= <<>>
    THEN TrustedPublisherCheck(algorithm_did, trusted_publishers)
    ELSE TrustedAlgorithmCheck(data, algorithm_did, trusted_algorithms)

\* Mutant of _validate_trusted_algos: without trusted algorithms every
\* algorithm passes.
_validate_trusted_algos_NeedsList(data, algorithm_did, trusted_algorithms, trusted_publishers) ==
    IF trusted_algorithms = <<>> THEN Ok
    ELSE LET pub == TrustedPublisherCheck(algorithm_did, trusted_publishers) IN
         IF pub.kind /= "ok" THEN pub
         ELSE TrustedAlgorithmCheck(data, algorithm_did, trusted_algorithms)

\* InputItemValidator._validate_trusted_algos
_validate_trusted_algos(data, algorithm_did, trusted_algorithms, trusted_publishers) ==
    IF trusted_algorithms = <<>> /\ trusted_publishers = <<>> THEN Ok
    ELSE LET pub == TrustedPublisherCheck(algorithm_did, trusted_publishers) IN
         IF pub.kind /= "ok" THEN pub
         ELSE TrustedAlgorithmCheck(data, algorithm_did, trusted_algorithms)

\* dict.get(key, default)
Get(d, key, default) == IF key \in DOMAIN d THEN d[key] ELSE default

\* Mutant of validate_algo: a service that does not configure allowRawAlgorithm
\* allows raw algorithms.
validate_algo_DefaultAllows(data, did, service) ==
    LET algo_data == data.algorithm
        algorithm_meta == algo_data.meta
        algorithm_did == algo_data.documentId
        privacy_options == service.compute_dict
    IN  IF algorithm_did = None /\ algorithm_meta = None
        THEN Fail("both meta and documentId are missing from algorithm input, at least one of these is required.")
        ELSE IF TruthyStr(algorithm_did)
        THEN _validate_trusted_algos(data, algorithm_did,
                                     Get(privacy_options, "publisherTrustedAlgorithms", <<>>),
                                     Get(privacy_options, "publisherTrustedAlgorithmPublishers", <<>>))
        ELSE IF Get(privacy_options, "allowRawAlgorithm", TRUE) = FALSE
        THEN Fail("cannot run raw algorithm on this did.")
        ELSE Ok

\* InputItemValidator.validate_algo
validate_algo(data, did, service) ==
    LET algo_data == data.algorithm
        algorithm_meta == algo_data.meta
        algorithm_did == algo_data.documentId
        privacy_options == service.compute_dict
    IN  IF algorithm_did = None /\ algorithm_meta = None
        THEN Fail("both meta and documentId are missing from algorithm input, at least one of these is required.")
        ELSE IF TruthyStr(algorithm_did)
        THEN _validate_trusted_algos(data, algorithm_did,
                                     Get(privacy_options, "publisherTrustedAlgorithms", <<>>),
                                     Get(privacy_options, "publisherTrustedAlgorithmPublishers", <<>>))
        ELSE IF Get(privacy_options, "allowRawAlgorithm", FALSE) = FALSE
        THEN Fail("cannot run raw algorithm on this did.")
        ELSE Ok

\* Mutant of ServiceTypeError: an access service is accepted at every index.
ServiceTypeError_AccessAtAnyIndex(type, index) ==
    IF type \notin {"access", "compute"}
    THEN "Services in input can only be access or compute."
    ELSE ""

\* InputItemValidator.validate, lines 290-296: the error of the service type of
\* the item at index, "" when the type is accepted.
ServiceTypeError(type, index) ==
    IF type \notin {"access", "compute"}
    THEN "Services in input can only be access or compute."
    ELSE IF type /= "compute" /\ index = 0
    THEN "Service for main asset must be compute."
    ELSE ""

\* Mutant of validate_item: the algorithm is checked against the policy of the
\* main dataset only.
validate_item_AlgoOnMainOnly(data, index, consumable, asset_urls, compute_dict) ==
    IF ~TruthyStr(data.documentId) THEN Fail("No documentId in input item.") @@ [calls |-> <<>>]
    ELSE IF ~TruthyStr(data.transferTxId)
    THEN Fail("No transferTxId in input item.") @@ [calls |-> <<>>]
    ELSE IF ~Truthy(data.serviceId) /\ data.serviceId /= PyInt(0)
    THEN Fail("No serviceId in input item.") @@ [calls |-> <<>>]
    ELSE
    LET did == data.documentId
        c1 == <<"get_asset_from_metadatastore">>
    IN  IF ~AssetExists(did) THEN Fail("Asset for did not found.") @@ [calls |-> c1]
        ELSE
        LET found == get_service_by_id(did, data.serviceId, compute_dict) IN
        IF found = <<>> THEN Fail("Service id not found.") @@ [calls |-> c1]
        ELSE
        LET service == found[1]
            c2 == Append(c1, "check_asset_consumable")
        IN  IF ~consumable THEN Fail("asset is not consumable") @@ [calls |-> c2]
            ELSE IF ServiceTypeError(service.type, index) /= ""
            THEN Fail(ServiceTypeError(service.type, index)) @@ [calls |-> c2]
            ELSE
            LET c3 == Append(c2, "get_service_files_list") IN
            IF service.type = "compute" /\ asset_urls = <<>>
            THEN Fail("Services in input with compute type must be in the same provider you are calling.")
                 @@ [calls |-> c3]
            ELSE
            LET algo == IF service.type = "compute" /\ index = 0
                        THEN validate_algo(data, did, service) ELSE Ok
            IN  IF algo.kind /= "ok" THEN algo @@ [calls |-> c3]
                ELSE IF asset_urls = <<>> /\ TruthyStr(data.userdata)
                THEN Crash("AttributeError") @@ [calls |-> c3]
                ELSE Ok @@ [calls |-> c3]

\* InputItemValidator.validate up to the call of validate_usage (lines 257-326).
\* consumable, asset_urls and compute_dict are what check_asset_consumable,
\* get_service_files_list and the resolved service answer. The result carries
\* the collaborators consulted, in order.
validate_item(data, index, consumable, asset_urls, compute_dict) ==
    IF ~TruthyStr(data.documentId) THEN Fail("No documentId in input item.") @@ [calls |-> <<>>]
    ELSE IF ~TruthyStr(data.transferTxId)
    THEN Fail("No transferTxId in input item.") @@ [calls |-> <<>>]
    ELSE IF ~Truthy(data.serviceId) /\ data.serviceId /= PyInt(0)
    THEN Fail("No serviceId in input item.") @@ [calls |-> <<>>]
    ELSE
    LET did == data.documentId
        c1 == <<"get_asset_from_metadatastore">>
    IN  IF ~AssetExists(did) THEN Fail("Asset for did not found.") @@ [calls |-> c1]
        ELSE
        LET found == get_service_by_id(did, data.serviceId, compute_dict) IN
        IF found = <<>> THEN Fail("Service id not found.") @@ [calls |-> c1]
        ELSE
        LET service == found[1]
            c2 == Append(c1, "check_asset_consumable")
        IN  IF ~consumable THEN Fail("asset is not consumable") @@ [calls |-> c2]
            ELSE IF ServiceTypeError(service.type, index) /= ""
            THEN Fail(ServiceTypeError(service.type, index)) @@ [calls |-> c2]
            ELSE
            LET c3 == Append(c2, "get_service_files_list") IN
            IF service.type = "compute" /\ asset_urls = <<>>
            THEN Fail("Services in input with compute type must be in the same provider you are calling.")
                 @@ [calls |-> c3]
            ELSE
            LET algo == IF service.type = "compute"
                        THEN validate_algo(data, did, service) ELSE Ok
            IN  IF algo.kind /= "ok" THEN algo @@ [calls |-> c3]
                ELSE IF asset_urls = <<>> /\ TruthyStr(data.userdata)
                THEN Crash("AttributeError") @@ [calls |-> c3]
                ELSE Ok @@ [calls |-> c3]

\* self.validated_inputs of an item that passed (lines 308-321).
validated_inputs_of(data, index, asset_urls) ==
    IF asset_urls /= <<>>
    THEN [index |-> index, id |-> data.documentId, url |-> asset_urls,
          remote |-> <<>>]
    ELSE [index |-> index, id |-> data.documentId, url |-> <<>>,
          remote |-> <<[txid |-> data.transferTxId, serviceId |-> data.serviceId]>>]

(***************************************************************************)
(* WorkflowValidator: one request per worker, step by step. A step is a     *)
(* stretch of the validator between two calls of the chain or the ledger.  *)
(***************************************************************************)
\* Bounds: the additional datasets of a request, and the use counter of a row.
MaxAdditional == 1
MaxUses == 2

T1 == "0xT1"
T2 == "0xT2"
ConsumerAddress == "0xAlice"

\* validate_order answers: it raises, or returns logs that carry validUntil.
OrderFailed == "order is not valid"
ValidUntils == {5, 9}

\* The fields of a validator at the start of a request; store holds the privacy
\* options the metadata store resolves for each asset while the request runs,
\* consumable the answers of check_asset_consumable for the items asked about,
\* ledger_before the rows of the ledger when the request arrived.
FreshWorker(data, store) ==
    [pc |-> "item", data |-> data, store |-> store, index |-> 0, error |-> <<>>,
     raised |-> None,
     service |-> <<>>, item_inputs |-> <<>>, item_valid_until |-> <<>>,
     validated_inputs |-> <<>>, valid_until_list |-> <<>>, valid_until |-> <<>>,
     algo_service |-> <<>>, validated_algo_dict |-> <<>>,
     validated_output_dict |-> <<>>, stages |-> <<>>, calls |-> <<>>,
     consumable |-> <<>>, ledger_before |-> ledger]

IdleWorker == [pc |-> "idle"]

\* service.compute_dict of the services of an asset.
compute_dict_of(store, did) == IF did \in DOMAIN store THEN store[did] ELSE NoPolicy

\* all_data = [main_input] + additional_inputs, each with the algorithm attached.
all_data(data) ==
    [i \in 1..(1 + Len(data.additionalDatasets)) |->
        (IF i = 1 THEN data.dataset ELSE data.additionalDatasets[i - 1])
            @@ [algorithm |-> data.algorithm]]

\* The input item under validation (index counts from 0).
input_item(w) == all_data(w.data)[w.index + 1]

\* Mutant of item_error: the error of the item at index 0 is prefixed too.
item_error_AlwaysPrefixed(index, error, cause) ==
    <<[prefix |-> <<"Error in input at index", index>>, error |-> error, cause |-> cause]>>

\* validate_input, lines 89-92: the error of a failed item, prefixed from index 1.
\* cause is the text of the exception the message ends with, if any.
item_error(index, error, cause) ==
    <<[prefix |-> IF index /= 0 THEN <<"Error in input at index", index>> ELSE <<>>,
       error |-> error, cause |-> cause]>>

\* An error of the workflow outside the input items.
workflow_error(error) == <<[prefix |-> <<>>, error |-> error, cause |-> None]>>

\* A collaborator call of the request, with the input index it was made for
\* (-1 for the algorithm).
Call(w, name) == Append(w.calls, <<name, w.index>>)
CallAll(w, names) ==
    w.calls \o [i \in DOMAIN names |-> <<names[i], w.index>>]

\* Mutant of Min: the greatest element.
Min_Greatest(S) == CHOOSE x \in S : \A y \in S : x >= y

\* min(valid_until_list)
Min(S) == CHOOSE x \in S : \A y \in S : x <= y

\* WorkflowValidator.__init__ and the start of validate/validate_input.
Receive(p, requests, stores) ==
    /\ rq[p].pc = "idle"
    /\ \E data \in requests, store \in stores :
          rq' = [rq EXCEPT ![p] = FreshWorker(data, store)]
    /\ UNCHANGED <<vo, ledger>>

\* Mutant of ValidateItem: after a failed item that is not the last the loop of
\* validate_input goes on with the next item.
ValidateItem_SkipsFailed(p) ==
    /\ rq[p].pc = "item"
    /\ \E consumable \in BOOLEAN, asset_urls \in {<<>>, <<"url">>} :
        LET w == rq[p]
            item == input_item(w)
            compute_dict == compute_dict_of(w.store, item.documentId)
            r == validate_item(item, w.index, consumable, asset_urls, compute_dict)
            calls == CallAll(w, r.calls)
            asked == \E i \in DOMAIN r.calls : r.calls[i] = "check_asset_consumable"
            answers == IF asked THEN Append(w.consumable, consumable) ELSE w.consumable
            last == w.index + 1 = Len(all_data(w.data))
        IN  rq' = [rq EXCEPT ![p] =
                CASE r.kind = "fail" ->
                        [w EXCEPT !.pc = IF last THEN "failed" ELSE "item",
                                  !.index = IF last THEN w.index ELSE w.index + 1,
                                  !.calls = calls, !.consumable = answers,
                                  !.error = item_error(w.index, r.error, None)]
                  [] r.kind = "exception" ->
                        [w EXCEPT !.pc = "crashed", !.calls = calls, !.consumable = answers,
                                  !.raised = r.error]
                  [] OTHER ->
                        [w EXCEPT !.pc = "usage_order", !.calls = calls,
                                  !.consumable = answers,
                                  !.service = get_service_by_id(item.documentId,
                                                  item.serviceId, compute_dict),
                                  !.item_inputs =
                                      <<validated_inputs_of(item, w.index, asset_urls)>>]]
    /\ UNCHANGED <<vo, ledger>>

\* Mutant of ValidateItem: the answer of check_asset_consumable is not looked at.
ValidateItem_NotGated(p) ==
    /\ rq[p].pc = "item"
    /\ \E consumable \in BOOLEAN, asset_urls \in {<<>>, <<"url">>} :
        LET w == rq[p]
            item == input_item(w)
            compute_dict == compute_dict_of(w.store, item.documentId)
            r == validate_item(item, w.index, TRUE, asset_urls, compute_dict)
            calls == CallAll(w, r.calls)
            asked == \E i \in DOMAIN r.calls : r.calls[i] = "check_asset_consumable"
            answers == IF asked THEN Append(w.consumable, consumable) ELSE w.consumable
        IN  rq' = [rq EXCEPT ![p] =
                CASE r.kind = "fail" ->
                        [w EXCEPT !.pc = "failed", !.calls = calls, !.consumable = answers,
                                  !.error = item_error(w.index, r.error, None)]
                  [] r.kind = "exception" ->
                        [w EXCEPT !.pc = "crashed", !.calls = calls, !.consumable = answers,
                                  !.raised = r.error]
                  [] OTHER ->
                        [w EXCEPT !.pc = "usage_order", !.calls = calls,
                                  !.consumable = answers,
                                  !.service = get_service_by_id(item.documentId,
                                                  item.serviceId, compute_dict),
                                  !.item_inputs =
                                      <<validated_inputs_of(item, w.index, asset_urls)>>]]
    /\ UNCHANGED <<vo, ledger>>

\* InputItemValidator.validate up to validate_usage, for the item at index.
ValidateItem(p) ==
    /\ rq[p].pc = "item"
    /\ \E consumable \in BOOLEAN, asset_urls \in {<<>>, <<"url">>} :
        LET w == rq[p]
            item == input_item(w)
            compute_dict == compute_dict_of(w.store, item.documentId)
            r == validate_item(item, w.index, consumable, asset_urls, compute_dict)
            calls == CallAll(w, r.calls)
            asked == \E i \in DOMAIN r.calls : r.calls[i] = "check_asset_consumable"
            answers == IF asked THEN Append(w.consumable, consumable) ELSE w.consumable
        IN  rq' = [rq EXCEPT ![p] =
                CASE r.kind = "fail" ->
                        [w EXCEPT !.pc = "failed", !.calls = calls, !.consumable = answers,
                                  !.error = item_error(w.index, r.error, None)]
                  [] r.kind = "exception" ->
                        [w EXCEPT !.pc = "crashed", !.calls = calls, !.consumable = answers,
                                  !.raised = r.error]
                  [] OTHER ->
                        [w EXCEPT !.pc = "usage_order", !.calls = calls,
                                  !.consumable = answers,
                                  !.service = get_service_by_id(item.documentId,
                                                  item.serviceId, compute_dict),
                                  !.item_inputs =
                                      <<validated_inputs_of(item, w.index, asset_urls)>>]]
    /\ UNCHANGED <<vo, ledger>>

\* Mutant of UsageOrder: an order that is not valid does not stop the item.
UsageOrder_IgnoresFailure(p) ==
    /\ rq[p].pc = "usage_order"
    /\ \E outcome \in {<<>>} \cup {<<v>> : v \in ValidUntils} :
        LET w == rq[p] IN
        rq' = [rq EXCEPT ![p] =
                 [w EXCEPT !.pc = "usage_check", !.calls = Call(w, "validate_order"),
                           !.item_valid_until = outcome]]
    /\ UNCHANGED <<vo, ledger>>

\* validate_usage, lines 420-428: validate_order and the validity deadline.
UsageOrder(p) ==
    /\ rq[p].pc = "usage_order"
    /\ \E outcome \in {<<>>} \cup {<<v>> : v \in ValidUntils} :
        LET w == rq[p]
            calls == Call(w, "validate_order")
        IN  rq' = [rq EXCEPT ![p] =
                IF outcome = <<>>
                THEN [w EXCEPT !.pc = "failed", !.calls = calls, !.raised = OrderFailed,
                               !.error = item_error(w.index,
                                   "Order for serviceId is not valid.", OrderFailed)]
                ELSE [w EXCEPT !.pc = "usage_check", !.calls = calls,
                               !.item_valid_until = outcome]]
    /\ UNCHANGED <<vo, ledger>>

\* Mutant of ItemReplayCheck: the replay check is not made.
ItemReplayCheck_Skipped(rows, did, service, tx_id) == None

\* validate_usage, lines 429-431: the replay check of the item.
ItemReplayCheck(rows, did, service, tx_id) ==
    validate_transfer_not_used_for_other_service(rows, did, service.id, tx_id)

\* Mutant of ItemRecord: the use of an item is not written while the request
\* is validated.
ItemRecord_NotWritten(rows, did, service, tx_id, consumer) ==
    [raised |-> None, rows |-> rows]

\* Mutant of ItemRecord: a row that exists is left as it is.
ItemRecord_OnlyFirst(rows, did, service, tx_id, consumer) ==
    IF Uses(rows, did, service.id, tx_id) > 0 THEN [raised |-> None, rows |-> rows]
    ELSE record_consume_request(rows, did, service.id, tx_id, consumer, 1)

\* validate_usage, lines 432-439: the use of the item is recorded.
ItemRecord(rows, did, service, tx_id, consumer) ==
    record_consume_request(rows, did, service.id, tx_id, consumer, 1)

\* validate_usage, lines 429-431 and the handler of lines 440-445.
UsageCheck(p) ==
    /\ rq[p].pc = "usage_check"
    /\ LET w == rq[p]
           item == input_item(w)
           e == ItemReplayCheck(ledger, item.documentId, w.service[1], item.transferTxId)
           calls == Call(w, "validate_transfer_not_used_for_other_service")
       IN  rq' = [rq EXCEPT ![p] =
               IF e /= None
               THEN [w EXCEPT !.pc = "failed", !.calls = calls, !.raised = e,
                              !.error = item_error(w.index,
                                  "Order for serviceId is not valid.", e)]
               ELSE [w EXCEPT !.pc = "usage_record", !.calls = calls]]
    /\ UNCHANGED <<vo, ledger>>

\* validate_usage, lines 432-447, and the rest of the loop body of
\* validate_input (lines 94-100): the item is recorded and appended; after the
\* last item the deadline of the workflow is the minimum.
UsageRecorded(p) ==
    /\ rq[p].pc = "usage_record"
    /\ LET w == rq[p]
           item == input_item(w)
           r == ItemRecord(ledger, item.documentId, w.service[1],
                           item.transferTxId, ConsumerAddress)
           calls == Call(w, "record_consume_request")
           inputs == w.validated_inputs \o w.item_inputs
           untils == w.valid_until_list \o w.item_valid_until
           last == w.index + 1 = Len(all_data(w.data))
       IN  /\ Uses(ledger, item.documentId, w.service[1].id, item.transferTxId) < MaxUses
           /\ ledger' = r.rows
           /\ rq' = [rq EXCEPT ![p] =
                  IF r.raised /= None
                  THEN [w EXCEPT !.pc = "failed", !.calls = calls, !.raised = r.raised,
                                 !.error = item_error(w.index,
                                     "Order for serviceId is not valid.", r.raised)]
                  ELSE
                  [w EXCEPT !.pc = IF last THEN "algo" ELSE "item",
                            !.index = IF last THEN -1 ELSE w.index + 1,
                            !.calls = calls,
                            !.validated_inputs = inputs,
                            !.valid_until_list = untils,
                            !.valid_until =
                                IF last
                                THEN <<Min({untils[i] : i \in DOMAIN untils})>>
                                ELSE <<>>,
                            !.item_inputs = <<>>, !.item_valid_until = <<>>]]
    /\ UNCHANGED vo

\* What StageAlgoSerializer.serialize may give.
Container(tag) == [entrypoint |-> "python", image |-> "img", tag |-> tag]
AlgoDicts ==
    {[url |-> u, rawcode |-> c, remote |-> "", container |-> Container(t)] :
        u \in {"", "url"}, c \in {"", "code"}, t \in {"", "latest"}}

\* validate_formatted_algorithm_dict: the error message, or "" when valid.
validate_formatted_algorithm_dict(algorithm_dict, algorithm_did) ==
    IF TruthyStr(algorithm_did) /\ algorithm_dict.url = "" /\ algorithm_dict.remote = ""
    THEN "cannot get url for the algorithmDid"
    ELSE IF algorithm_dict.url = "" /\ algorithm_dict.rawcode = ""
            /\ algorithm_dict.remote = ""
    THEN "algorithmMeta must define one of url or rawcode or remote, but all seem missing."
    ELSE IF ~(algorithm_dict.container.entrypoint /= ""
              /\ algorithm_dict.container.image /= ""
              /\ algorithm_dict.container.tag /= "")
    THEN "algorithm container must specify values for all of entrypoint, image and tag."
    ELSE ""

AlgoInUse == "Algorithm is already in use or can not be found on chain."

\* _build_and_validate_algo, line 130: the algorithm is an asset to be verified.
AlgoIsOrdered(algo_data) == TruthyStr(algo_data.documentId) /\ ~TruthyStr(algo_data.meta)

\* _build_and_validate_algo, lines 126-164: up to the call of validate_order.
BuildAlgo(p) ==
    /\ rq[p].pc = "algo"
    /\ \E asset_urls \in {<<>>, <<"url">>} :
        LET w == rq[p]
            algo_data == w.data.algorithm
            algorithm_did == algo_data.documentId
            sid == algo_data.serviceId
            c1 == Call(w, "get_asset_from_metadatastore")
            found == get_service_by_id(algorithm_did, sid, NoPolicy)
        IN  rq' = [rq EXCEPT ![p] =
                IF ~AlgoIsOrdered(algo_data)
                THEN [w EXCEPT !.pc = "algo_serialize"]
                ELSE IF ~AssetExists(algorithm_did)
                THEN [w EXCEPT !.pc = "crashed", !.calls = c1, !.raised = "AttributeError"]
                ELSE IF AssetType(algorithm_did) /= "algorithm"
                THEN [w EXCEPT !.pc = "failed", !.calls = c1,
                               !.error = workflow_error("DID is not a valid algorithm")]
                ELSE IF ~Truthy(sid)
                THEN [w EXCEPT !.pc = "failed", !.calls = c1,
                               !.error = workflow_error("No serviceId in algorithm input item.")]
                ELSE IF found = <<>>
                THEN [w EXCEPT !.pc = "failed", !.calls = c1, !.raised = "AttributeError",
                               !.error = workflow_error(AlgoInUse)]
                ELSE IF found[1].type = "compute" /\ asset_urls = <<>>
                THEN [w EXCEPT !.pc = "failed", !.algo_service = found,
                               !.calls = Append(c1, <<"get_service_files_list", -1>>),
                               !.error = workflow_error("Services in algorithm with compute type must be in the same provider you are calling.")]
                ELSE [w EXCEPT !.pc = "algo_order", !.algo_service = found,
                               !.calls = IF found[1].type = "compute"
                                         THEN Append(c1, <<"get_service_files_list", -1>>)
                                         ELSE c1]]
    /\ UNCHANGED <<vo, ledger>>

\* _build_and_validate_algo, lines 166-172 and the handler of lines 188-193.
AlgoOrder(p) ==
    /\ rq[p].pc = "algo_order"
    /\ \E outcome \in {<<>>} \cup {<<v>> : v \in ValidUntils} :
        LET w == rq[p]
            calls == Call(w, "validate_order")
        IN  rq' = [rq EXCEPT ![p] =
                IF outcome = <<>>
                THEN [w EXCEPT !.pc = "failed", !.calls = calls, !.raised = OrderFailed,
                               !.error = workflow_error(AlgoInUse)]
                ELSE [w EXCEPT !.pc = "algo_check", !.calls = calls]]
    /\ UNCHANGED <<vo, ledger>>

\* _build_and_validate_algo, lines 173-179: the replay check of the algorithm.
AlgoReplayCheck(rows, did, service, tx_id) ==
    validate_transfer_not_used_for_other_service(rows, did, service.id, tx_id)

\* _build_and_validate_algo, lines 180-187: the use of the algorithm is recorded.
AlgoRecord(rows, did, service, tx_id, consumer) ==
    record_consume_request(rows, did, service.id, tx_id, consumer, 1)

\* _build_and_validate_algo, lines 173-179 and the handler of lines 188-193.
AlgoCheck(p) ==
    /\ rq[p].pc = "algo_check"
    /\ LET w == rq[p]
           algo_data == w.data.algorithm
           e == AlgoReplayCheck(ledger, algo_data.documentId, w.algo_service[1],
                                algo_data.transferTxId)
           calls == Call(w, "validate_transfer_not_used_for_other_service")
       IN  rq' = [rq EXCEPT ![p] =
               IF e /= None
               THEN [w EXCEPT !.pc = "failed", !.calls = calls, !.raised = e,
                              !.error = workflow_error(AlgoInUse)]
               ELSE [w EXCEPT !.pc = "algo_record", !.calls = calls]]
    /\ UNCHANGED <<vo, ledger>>

\* _build_and_validate_algo, lines 180-187 and the handler of lines 188-193.
AlgoRecorded(p) ==
    /\ rq[p].pc = "algo_record"
    /\ LET w == rq[p]
           algo_data == w.data.algorithm
           r == AlgoRecord(ledger, algo_data.documentId, w.algo_service[1],
                           algo_data.transferTxId, ConsumerAddress)
           calls == Call(w, "record_consume_request")
       IN  /\ Uses(ledger, algo_data.documentId, w.algo_service[1].id,
                   algo_data.transferTxId) < MaxUses
           /\ ledger' = r.rows
           /\ rq' = [rq EXCEPT ![p] =
                  IF r.raised /= None
                  THEN [w EXCEPT !.pc = "failed", !.calls = calls, !.raised = r.raised,
                                 !.error = workflow_error(AlgoInUse)]
                  ELSE [w EXCEPT !.pc = "algo_serialize", !.calls = calls]]
    /\ UNCHANGED vo

\* _build_and_validate_algo, lines 195-213.
SerializeAlgo(p) ==
    /\ rq[p].pc = "algo_serialize"
    /\ \E algorithm_dict \in AlgoDicts :
        LET w == rq[p]
            error_msg == validate_formatted_algorithm_dict(algorithm_dict,
                                                           w.data.algorithm.documentId)
        IN  rq' = [rq EXCEPT ![p] =
                IF error_msg /= ""
                THEN [w EXCEPT !.pc = "failed", !.error = workflow_error(error_msg)]
                ELSE [w EXCEPT !.pc = "output", !.validated_algo_dict = <<algorithm_dict>>]]
    /\ UNCHANGED <<vo, ledger>>

\* build_stage_output_dict
build_stage_output_dict(output_def, owner) ==
    [metadataUri |-> "aquarius_url",
     owner |-> IF output_def.owner = None THEN owner ELSE output_def.owner]

\* Mutant of ValidateOutput: the stage is appended before the output is looked at.
ValidateOutput_StageFirst(p) ==
    /\ rq[p].pc = "output"
    /\ LET w == rq[p]
           output_def == w.data.output
           out == build_stage_output_dict(output_def, ConsumerAddress)
           staged == [w EXCEPT !.stages = <<[index |-> 0, input |-> w.validated_inputs,
                                             compute |-> [Instances |-> 1,
                                                          namespace |-> "ocean-compute",
                                                          maxtime |-> 3600],
                                             algorithm |-> w.validated_algo_dict[1],
                                             output |-> out]>>]
       IN  rq' = [rq EXCEPT ![p] =
               IF ~output_def.decodes
               THEN [staged EXCEPT !.pc = "failed",
                        !.error = workflow_error("Output is invalid or can not be decoded.")]
               ELSE [staged EXCEPT !.pc = "done", !.validated_output_dict = <<out>>]]
    /\ UNCHANGED <<vo, ledger>>

\* validate_output and the end of validate (lines 40-57, 107-122).
ValidateOutput(p) ==
    /\ rq[p].pc = "output"
    /\ LET w == rq[p]
           output_def == w.data.output
       IN  rq' = [rq EXCEPT ![p] =
               IF ~output_def.decodes
               THEN [w EXCEPT !.pc = "failed",
                              !.error = workflow_error("Output is invalid or can not be decoded.")]
               ELSE LET out == build_stage_output_dict(output_def, ConsumerAddress) IN
                    [w EXCEPT !.pc = "done",
                              !.validated_output_dict = <<out>>,
                              !.stages = <<[index |-> 0, input |-> w.validated_inputs,
                                            compute |-> [Instances |-> 1,
                                                         namespace |-> "ocean-compute",
                                                         maxtime |-> 3600],
                                            algorithm |-> w.validated_algo_dict[1],
                                            output |-> out]>>]]
    /\ UNCHANGED <<vo, ledger>>

\* The request is answered; the worker takes the next one.
Respond(p) ==
    /\ rq[p].pc \in {"done", "failed", "crashed"}
    /\ rq' = [rq EXCEPT ![p] = IdleWorker]
    /\ UNCHANGED <<vo, ledger>>

\* The steps of a request after it was received.
Step(p) ==
    \/ ValidateItem(p) \/ UsageOrder(p) \/ UsageCheck(p) \/ UsageRecorded(p)
    \/ BuildAlgo(p) \/ AlgoOrder(p) \/ AlgoCheck(p) \/ AlgoRecorded(p)
    \/ SerializeAlgo(p) \/ ValidateOutput(p) \/ Respond(p)

(***************************************************************************)
(* Requests and specifications of the workflow.                            *)
(***************************************************************************)
\* The privacy options of a compute service that allows any algorithm.
OpenPolicy ==
    [allowRawAlgorithm |-> TRUE, publisherTrustedAlgorithms |-> <<>>,
     publisherTrustedAlgorithmPublishers |-> <<>>]

Item(did, sid, tx) ==
    [documentId |-> did, serviceId |-> sid, transferTxId |-> tx, userdata |-> None]

OrderedAlgo(sid, tx) ==
    [documentId |-> ALG, meta |-> None, serviceId |-> sid, transferTxId |-> tx]
RawAlgo == [documentId |-> None, meta |-> "meta", serviceId |-> PyNone,
            transferTxId |-> None]

Output(decodes) == [decodes |-> decodes, owner |-> None]

Request(dataset, additional, algorithm, output) ==
    [dataset |-> dataset, additionalDatasets |-> additional,
     algorithm |-> algorithm, output |-> output]

\* The requests of the sequential specification: a main dataset, at most
\* MaxAdditional further datasets, an algorithm that is ordered or raw.
MainItems == {Item(D1, sid, tx) : sid \in {PyInt(0), PyInt(1)}, tx \in {T1, T2}}
MoreItems == {Item(D2, PyInt(1), tx) : tx \in {T1, T2}} \cup {Item(D1, PyInt(0), T1)}
Algorithms == {OrderedAlgo(PyInt(1), tx) : tx \in {T1, T2}} \cup {RawAlgo}
LedgerRequests ==
    {Request(d, more, a, Output(TRUE)) :
        d \in MainItems, more \in SeqsUpTo(MoreItems, MaxAdditional), a \in Algorithms}
    \cup {Request(Item(None, PyInt(0), T1), <<>>, RawAlgo, Output(FALSE)),
          Request(Item(D1, PyInt(0), T1), <<>>, RawAlgo, Output(FALSE))}
LedgerStores == {[d \in {D1, D2} |-> OpenPolicy]}

\* The requests of the concurrent specification all present the transaction T1.
RaceRequests ==
    {Request(Item(D1, sid, T1), <<>>, RawAlgo, Output(TRUE)) :
        sid \in {PyInt(0), PyInt(1)}}
    \cup {Request(Item(D1, PyInt(0), T2), <<>>, OrderedAlgo(PyInt(1), T1), Output(TRUE))}

InitWorkers(workers) ==
    /\ vo = Idle
    /\ ledger = {}
    /\ rq = [p \in workers |-> IdleWorker]

\* The requests of the workflow specification: items and algorithms that pass
\* and that fail at each step of the validators, under three policies.
T3 == "0xT3"
TrustALG ==
    [allowRawAlgorithm |-> FALSE,
     publisherTrustedAlgorithms |-> <<TrustedAlgo(ALG, <<>>, <<>>)>>,
     publisherTrustedAlgorithmPublishers |-> <<>>]
TrustPub1 ==
    [allowRawAlgorithm |-> FALSE, publisherTrustedAlgorithms |-> <<>>,
     publisherTrustedAlgorithmPublishers |-> <<Pub1>>]
WorkflowMainItems ==
    {Item(D1, PyInt(0), T1), Item(D2, PyInt(1), T1), Item(None, PyInt(0), T1),
     Item(DNF, PyInt(0), T1), Item(D1, PyNone, T1), Item(D3, PyInt(0), T1)}
WorkflowMoreItems ==
    {Item(D2, PyInt(1), T2), Item(D2, PyInt(0), T2), Item(D2, PyInt(1), None),
     Item(D3, PyInt(1), T2), [Item(D2, PyInt(1), T2) EXCEPT !.userdata = "userdata"]}
WorkflowAlgorithms ==
    {OrderedAlgo(PyInt(1), T3), OrderedAlgo(PyInt(1), T2), OrderedAlgo(PyNone, T3),
     RawAlgo,
     [documentId |-> None, meta |-> None, serviceId |-> PyNone, transferTxId |-> None],
     [documentId |-> D2, meta |-> None, serviceId |-> PyInt(1), transferTxId |-> T3],
     [documentId |-> ALG, meta |-> "meta", serviceId |-> PyInt(1), transferTxId |-> T3]}
WorkflowRequests ==
    {Request(d, more, a, Output(o)) :
        d \in WorkflowMainItems, more \in SeqsUpTo(WorkflowMoreItems, MaxAdditional),
        a \in WorkflowAlgorithms, o \in BOOLEAN}
\* The privacy options of a compute service that configures none of them.
NoOptions == <<>>
WorkflowStores ==
    {[d \in {D1, D2} |-> pol] : pol \in {OpenPolicy, TrustALG, TrustPub1, NoOptions}}

InitWorkflow == InitWorkers({1})
NextWorkflow == Receive(1, WorkflowRequests, WorkflowStores) \/ Step(1)
SpecWorkflow == InitWorkflow /\ [][NextWorkflow]_vars

\* The requests of the policy specification: a main dataset and further
\* datasets with a compute or an access service, whose services each have
\* privacy options of their own.
TrustALGPinned ==
    [allowRawAlgorithm |-> FALSE,
     publisherTrustedAlgorithms
        |-> <<TrustedAlgo(ALG, <<>>, msg_hash(ContainerOf(D2)))>>,
     publisherTrustedAlgorithmPublishers |-> <<>>]
PolicyMoreItems == {Item(D2, PyInt(0), T2), Item(D2, PyInt(1), T2)}
PolicyAlgorithms ==
    {OrderedAlgo(PyInt(1), T3), RawAlgo,
     [documentId |-> D2, meta |-> None, serviceId |-> PyInt(1), transferTxId |-> T3]}
PolicyRequests ==
    {Request(Item(D1, PyInt(0), T1), more, a, Output(TRUE)) :
        more \in SeqsUpTo(PolicyMoreItems, MaxAdditional), a \in PolicyAlgorithms}
PolicyOptions == {OpenPolicy, TrustALG, TrustPub1, TrustALGPinned, NoOptions}
PolicyStores ==
    {[d \in {D1, D2} |-> IF d = D1 THEN main ELSE more] :
        main \in PolicyOptions, more \in PolicyOptions}

NextPolicy == Receive(1, PolicyRequests, PolicyStores) \/ Step(1)
SpecPolicy == InitWorkflow /\ [][NextPolicy]_vars

\* The calls of _validate_trusted_algos that are explored: the lists of the
\* service, the algorithm asked for and its service id.
MaxTrusted == 2
MaxPublishers == 2
TrustedEntries ==
    {TrustedAlgo(did, fc, cc) :
        did \in {ALG, D2},
        fc \in {<<>>, msg_hash(EncryptedFiles(ALG, PyInt(1))), msg_hash(EncryptedFiles(D2, PyInt(1)))},
        cc \in {<<>>, msg_hash(ContainerOf(ALG)), msg_hash(ContainerOf(D2))}}
TrustedLists == SeqsUpTo(TrustedEntries, MaxTrusted)
PublisherLists == SeqsUpTo({Pub1, PubA}, MaxPublishers)

ValidateTrustedAlgos ==
    /\ vo.pc = "idle"
    /\ \E algorithm_did \in {ALG, D2, DNF}, sid \in {PyInt(1), PyInt(2)},
          trusted_algorithms \in TrustedLists, trusted_publishers \in PublisherLists :
        LET data == [algorithm |-> [documentId |-> algorithm_did, serviceId |-> sid]]
        IN  vo' = [pc |-> "trusted",
                   a |-> [data |-> data, algorithm_did |-> algorithm_did,
                          trusted_algorithms |-> trusted_algorithms,
                          trusted_publishers |-> trusted_publishers],
                   out |-> _validate_trusted_algos(data, algorithm_did,
                                                   trusted_algorithms, trusted_publishers)]
    /\ UNCHANGED <<ledger, rq>>

\* validate_algo returns what _validate_trusted_algos returned.
TrustedDone ==
    /\ vo.pc = "trusted"
    /\ vo' = Idle
    /\ UNCHANGED <<ledger, rq>>

NextTrust == ValidateTrustedAlgos \/ TrustedDone
SpecTrust == InitOrder /\ [][NextTrust]_vars

\* One request at a time.
InitLedger == InitWorkers({1})
NextLedger == Receive(1, LedgerRequests, LedgerStores) \/ Step(1)
SpecLedger == InitLedger /\ [][NextLedger]_vars

\* Two requests in flight; their steps interleave.
InitRace == InitWorkers({1, 2})
NextRace == \E p \in {1, 2} : Receive(p, RaceRequests, LedgerStores) \/ Step(p)
SpecRace == InitRace /\ [][NextRace]_vars

(***************************************************************************)
(* CustomRulesProcessor: the signature rules of the request validators.    *)
(* verify_signature (ocean_provider.utils.accounts) and the nonce store    *)
(* are collaborators; in this specification ledger holds the rows of the   *)
(* user_nonce table, one per address.                                      *)
(***************************************************************************)
InvalidSignatureError == "InvalidSignatureError"

\* Bound: the nonces a request or a signature may carry are 1..MaxNonce.
MaxNonce == 3
Nonces == 1..MaxNonce

\* The nonce last accepted for an address; 0 when the address has no row.
get_nonce(rows, address) ==
    IF \E r \in rows : r.address = address
    THEN (CHOOSE r \in rows : r.address = address).nonce
    ELSE 0

\* update_nonce: the row of the address holds the nonce given.
update_nonce(rows, address, nonce) ==
    {r \in rows : r.address /= address} \cup {[address |-> address, nonce |-> nonce]}

\* The address recovered from a signature over a message and a nonce: the one
\* that signed when the signature was made over these, another one otherwise.
Nobody == "0x0"
Recover(signature, original_msg, nonce) ==
    IF signature.over = original_msg /\ signature.nonce = nonce
    THEN signature.by
    ELSE Nobody

\* Mutant of verify_signature: a nonce equal to the one last accepted passes.
verify_signature_AllowsEqual(rows, signer_address, signature, original_msg, nonce) ==
    IF nonce < get_nonce(rows, signer_address) THEN InvalidSignatureError
    ELSE IF Recover(signature, original_msg, nonce) /= signer_address
    THEN InvalidSignatureError
    ELSE None

\* verify_signature(signer_address, signature, original_msg, nonce): raises
\* InvalidSignatureError for a nonce that is not greater than the one last
\* accepted for the address, and for a signature that does not recover the
\* address.
verify_signature(rows, signer_address, signature, original_msg, nonce) ==
    IF nonce <= get_nonce(rows, signer_address) THEN InvalidSignatureError
    ELSE IF Recover(signature, original_msg, nonce) /= signer_address
    THEN InvalidSignatureError
    ELSE None

\* self._attribute_value(name): the field of the request, None when absent.
_attribute_value(request, name) == IF name \in DOMAIN request THEN request[name] ELSE None

\* x or ""
OrEmpty(x) == IF TruthyStr(x) THEN x ELSE ""

\* The result of a rule: what it returned and the call of verify_signature.
RuleResult(rows, signer_address, signature, original_msg, nonce) ==
    [ret |-> verify_signature(rows, signer_address, signature, original_msg, nonce) = None,
     call |-> [signer_address |-> signer_address, signature |-> signature,
               original_msg |-> original_msg, nonce |-> nonce]]

\* Mutant of validate_signature: the payload is owner, did, job id.
validate_signature_DidBeforeJob(rows, value, params, request) ==
    LET owner == OrEmpty(_attribute_value(request, params[1]))
        did == OrEmpty(_attribute_value(request, params[2]))
        job_id == OrEmpty(_attribute_value(request, params[3]))
        nonce == _attribute_value(request, params[4])
    IN  RuleResult(rows, owner, value, owner \o did \o job_id, nonce)

\* CustomRulesProcessor.validate_signature
validate_signature(rows, value, params, request) ==
    LET owner == OrEmpty(_attribute_value(request, params[1]))
        did == OrEmpty(_attribute_value(request, params[2]))
        job_id == OrEmpty(_attribute_value(request, params[3]))
        nonce == _attribute_value(request, params[4])
        original_msg == owner \o job_id \o did
    IN  RuleResult(rows, owner, value, original_msg, nonce)

\* CustomRulesProcessor.validate_download_signature
validate_download_signature(rows, value, params, request) ==
    LET owner == _attribute_value(request, params[1])
        did == _attribute_value(request, params[2])
        nonce == _attribute_value(request, params[3])
        original_msg == did
    IN  RuleResult(rows, owner, value, original_msg, nonce)

\* CustomRulesProcessor.validate_decrypt_signature
validate_decrypt_signature(rows, value, params, request) ==
    LET transaction_id == _attribute_value(request, params[1])
        data_nft_address == _attribute_value(request, params[2])
        decrypter_address == _attribute_value(request, params[3])
        chain_id == _attribute_value(request, params[4])
        nonce == _attribute_value(request, params[5])
        first_arg == IF TruthyStr(transaction_id) THEN transaction_id ELSE data_nft_address
        original_msg == first_arg \o decrypter_address \o str(chain_id)
    IN  RuleResult(rows, decrypter_address, value, original_msg, nonce)

\* The rules of ComputeRequest, DownloadRequest and DecryptRequest: the rule and
\* the names of the fields it is given.
SignatureRules ==
    {[rule |-> "signature",
      params |-> <<"consumerAddress", "documentId", "jobId", "nonce">>,
      signer |-> "consumerAddress"],
     [rule |-> "download_signature",
      params |-> <<"consumerAddress", "documentId", "nonce">>,
      signer |-> "consumerAddress"],
     [rule |-> "decrypt_signature",
      params |-> <<"transactionId", "dataNftAddress", "decrypterAddress", "chainId", "nonce">>,
      signer |-> "decrypterAddress"]}

\* The requests explored, without their signature.
SignerA == "0xA"
SignerB == "0xB"
Signers == {SignerA, SignerB}
UnsignedRequests(rule) ==
    CASE rule = "signature" ->
            {[consumerAddress |-> a, documentId |-> d, jobId |-> j, nonce |-> n] :
                a \in Signers, d \in {"d1", "j1d1"}, j \in {"j1", "j2"}, n \in Nonces}
            \cup {[consumerAddress |-> a, documentId |-> d, nonce |-> n] :
                a \in Signers, d \in {"d1", "j1d1"}, n \in Nonces}
      [] rule = "download_signature" ->
            {[consumerAddress |-> a, documentId |-> d, nonce |-> n] :
                a \in Signers, d \in {"d1", "j1d1"}, n \in Nonces}
      [] OTHER ->
            {[transactionId |-> t, dataNftAddress |-> "0xN", decrypterAddress |-> a,
              chainId |-> c, nonce |-> n] :
                t \in {"0xT", ""}, a \in Signers, c \in {PyInt(1), PyInt(2)}, n \in Nonces}
            \cup {[dataNftAddress |-> "0xN", decrypterAddress |-> a,
                   chainId |-> c, nonce |-> n] :
                a \in Signers, c \in {PyInt(1), PyInt(2)}, n \in Nonces}

\* The payloads a client may have signed for a request: those of the three
\* schemes, and the fields of the request scheme in another order.
SignedTexts(request) ==
    LET f(name) == OrEmpty(_attribute_value(request, name)) IN
    IF "decrypterAddress" \in DOMAIN request
    THEN {f("transactionId") \o request.decrypterAddress \o str(request.chainId),
          request.dataNftAddress \o request.decrypterAddress \o str(request.chainId),
          request.decrypterAddress \o request.dataNftAddress \o str(request.chainId)}
    ELSE {f("consumerAddress") \o f("jobId") \o f("documentId"),
          f("consumerAddress") \o f("documentId") \o f("jobId"),
          f("documentId")}

\* The rule of a request is evaluated (CustomJsonRequest.validate).
ValidateSignatureRule ==
    /\ vo.pc = "idle"
    /\ \E r \in SignatureRules :
       \E unsigned \in UnsignedRequests(r.rule), by \in Signers, signed_nonce \in Nonces :
       \E over \in SignedTexts(unsigned) :
        LET value == [by |-> by, over |-> over, nonce |-> signed_nonce]
            request == unsigned @@ [signature |-> value]
            out == CASE r.rule = "signature" ->
                            validate_signature(ledger, value, r.params, request)
                     [] r.rule = "download_signature" ->
                            validate_download_signature(ledger, value, r.params, request)
                     [] OTHER ->
                            validate_decrypt_signature(ledger, value, r.params, request)
        IN  vo' = [pc |-> "signature",
                   a |-> [rule |-> r.rule, request |-> request,
                          signer |-> request[r.signer]],
                   out |-> out]
    /\ UNCHANGED <<ledger, rq>>

\* The request is answered: one whose rule returned False is refused (the
\* validator fails with "Invalid signature provided."), one whose rule returned
\* True is served and its nonce becomes the nonce of the address.
SignedRequestAnswered ==
    /\ vo.pc = "signature"
    /\ ledger' = IF vo.out.ret
                 THEN update_nonce(ledger, vo.a.signer, vo.a.request.nonce)
                 ELSE ledger
    /\ vo' = Idle
    /\ UNCHANGED rq

NextSignature == ValidateSignatureRule \/ SignedRequestAnswered
SpecSignature == InitOrder /\ [][NextSignature]_vars

(***************************************************************************)
(* CustomJsonRequest: the validators of a request, in registration order.  *)
(* RBACValidator (ocean_provider.validation.RBAC) asks an out-of-process   *)
(* service; the route that called validate goes on to the chain            *)
(* verification when validate returned True.                               *)
(***************************************************************************)
ValidationException == "ValidationException"
RBACValidator == "RBACValidator"
CustomValidator == "CustomValidator"

\* Mutant of CustomJsonRequest_init: the rules validator is registered before
\* the RBAC validator.
CustomJsonRequest_init_RulesFirst(rbac_server_url, mapped) ==
    <<CustomValidator>>
        \o (IF rbac_server_url /= "" /\ mapped THEN <<RBACValidator>> ELSE <<>>)

\* CustomJsonRequest.__init__: self._validators. rbac_server_url is
\* os.getenv("RBAC_SERVER_URL") ("" when unset), mapped whether the class name
\* is a key of RBACValidator.get_action_mapping().
CustomJsonRequest_init(rbac_server_url, mapped) ==
    (IF rbac_server_url /= "" /\ mapped THEN <<RBACValidator>> ELSE <<>>)
        \o <<CustomValidator>>

\* The signature rule of the rules validator, evaluated on the request.
SignatureRuleResult(rows, a) ==
    CASE a.rule = "signature" ->
            validate_signature(rows, a.request.signature, a.params, a.request)
      [] a.rule = "download_signature" ->
            validate_download_signature(rows, a.request.signature, a.params, a.request)
      [] OTHER ->
            validate_decrypt_signature(rows, a.request.signature, a.params, a.request)

\* A request object is constructed for a request that arrived.
NewRequest ==
    /\ vo.pc = "idle"
    /\ \E r \in SignatureRules, rbac_server_url \in {"", "http://rbac"}, mapped \in BOOLEAN :
       \E unsigned \in UnsignedRequests(r.rule), by \in Signers, signed_nonce \in Nonces :
       \E over \in SignedTexts(unsigned) :
        LET value == [by |-> by, over |-> over, nonce |-> signed_nonce]
            request == unsigned @@ [signature |-> value]
        IN  vo' = [pc |-> "validate",
                   a |-> [rule |-> r.rule, params |-> r.params, request |-> request,
                          signer |-> request[r.signer],
                          rbac_server_url |-> rbac_server_url, mapped |-> mapped],
                   validators |-> CustomJsonRequest_init(rbac_server_url, mapped),
                   evaluated |-> <<>>, calls |-> <<>>, raised |-> None]
    /\ UNCHANGED <<ledger, rq>>

\* CustomJsonRequest.validate, one turn of the loop: validator.fails() of the
\* next validator; the first that fails raises ValidationException, and validate
\* returns True after the last.
ValidatorFails ==
    /\ vo.pc = "validate"
    /\ LET validator == vo.validators[Len(vo.evaluated) + 1]
           last == Len(vo.evaluated) + 1 = Len(vo.validators)
       IN  \E denied \in BOOLEAN :
           LET fails == IF validator = RBACValidator THEN denied
                        ELSE ~SignatureRuleResult(ledger, vo.a).ret
               call == IF validator = RBACValidator THEN "rbac_service"
                       ELSE "verify_signature"
           IN  /\ validator = CustomValidator => ~denied
               /\ vo' = [vo EXCEPT
                            !.evaluated = Append(@, [validator |-> validator,
                                                      fails |-> fails]),
                            !.calls = Append(@, call),
                            !.raised = IF fails THEN ValidationException ELSE None,
                            !.pc = IF fails THEN "raised"
                                   ELSE IF last THEN "valid" ELSE "validate"]
    /\ UNCHANGED <<ledger, rq>>

\* validate returned True: the route goes on to the chain verification, and the
\* nonce of the request becomes the nonce of the address.
RouteProceeds ==
    /\ vo.pc = "valid"
    /\ ledger' = update_nonce(ledger, vo.a.signer, vo.a.request.nonce)
    /\ vo' = [vo EXCEPT !.pc = "served", !.calls = Append(@, "chain_verification")]
    /\ UNCHANGED rq

\* The request is answered: served, or refused with the messages of the
\* validator that failed.
RequestAnswered ==
    /\ vo.pc \in {"raised", "served"}
    /\ vo' = Idle
    /\ UNCHANGED <<ledger, rq>>

NextRequest == NewRequest \/ ValidatorFails \/ RouteProceeds \/ RequestAnswered
SpecRequest == InitOrder /\ [][NextRequest]_vars

(***************************************************************************)
(* service_unavailable (ocean_provider.utils.util): the response to an     *)
(* error of the chain or another service. An error message is a sequence   *)
(* of pieces: a character, or one of the two path prefixes after which an  *)
(* Infura URL carries the project id.                                      *)
(***************************************************************************)
InfuraHttp == ".infura.io/v3/"
InfuraWs == ".infura.io/ws/v3/"
InfuraMarkers == {InfuraHttp, InfuraWs}
Stripped == "<infura project id stripped for security reasons>"
Space == " "

\* Bound: the pieces of an error message.
MaxMessage == 4
MessagePieces == {"a", "f", Space, InfuraHttp, InfuraWs}
Messages == SeqsUpTo(MessagePieces, MaxMessage)
Contexts == {[item1 |-> "test1", item2 |-> "test2"], [item1 |-> "test1"]}

\* Mutant of strip_infura_project_id: only the project id of an HTTP URL is
\* replaced.
RECURSIVE strip_infura_project_id_HttpOnly(_, _, _)
strip_infura_project_id_HttpOnly(msg, i, in_id) ==
    IF i > Len(msg) THEN <<>>
    ELSE IF in_id
    THEN IF msg[i] = Space
         THEN <<Space>> \o strip_infura_project_id_HttpOnly(msg, i + 1, FALSE)
         ELSE strip_infura_project_id_HttpOnly(msg, i + 1, TRUE)
    ELSE IF msg[i] = InfuraHttp /\ i < Len(msg) /\ msg[i + 1] /= Space
    THEN <<msg[i], Stripped>> \o strip_infura_project_id_HttpOnly(msg, i + 1, TRUE)
    ELSE <<msg[i]>> \o strip_infura_project_id_HttpOnly(msg, i + 1, FALSE)

\* The message from piece i on, with every run of non-whitespace pieces that
\* follows one of the two prefixes replaced by the placeholder; in_id says that
\* piece i - 1 was part of such a run, or the prefix before it.
RECURSIVE strip_infura_project_id(_, _, _)
strip_infura_project_id(msg, i, in_id) ==
    IF i > Len(msg) THEN <<>>
    ELSE IF in_id
    THEN IF msg[i] = Space
         THEN <<Space>> \o strip_infura_project_id(msg, i + 1, FALSE)
         ELSE strip_infura_project_id(msg, i + 1, TRUE)
    ELSE IF msg[i] \in InfuraMarkers /\ i < Len(msg) /\ msg[i + 1] /= Space
    THEN <<msg[i], Stripped>> \o strip_infura_project_id(msg, i + 1, TRUE)
    ELSE <<msg[i]>> \o strip_infura_project_id(msg, i + 1, FALSE)

\* service_unavailable(error, context, custom_logger): the response, and the
\* line it logs.
service_unavailable(error, context) ==
    [status_code |-> 503,
     json |-> [error |-> strip_infura_project_id(error, 1, FALSE), context |-> context],
     logged |-> <<"Payload was: ", context>>]

\* An error is answered with service_unavailable.
ServiceUnavailable ==
    /\ vo.pc = "idle"
    /\ \E error \in Messages, context \in Contexts :
          vo' = [pc |-> "unavailable", a |-> [error |-> error, context |-> context],
                 out |-> service_unavailable(error, context)]
    /\ UNCHANGED <<ledger, rq>>

\* The response is sent.
UnavailableSent ==
    /\ vo.pc = "unavailable"
    /\ vo' = Idle
    /\ UNCHANGED <<ledger, rq>>

NextUnavailable == ServiceUnavailable \/ UnavailableSent
SpecUnavailable == InitOrder /\ [][NextUnavailable]_vars

(***************************************************************************)
(* Properties of verify_order_tx, checked under SpecOrder.                 *)
(***************************************************************************)
\* A call has finished and the first attempt, or the retry after a closed
\* connection, was answered with a receipt.
GotReceipt ==
    /\ vo.pc = "done"
    /\ \/ vo.a.fetch[1] = "receipt"
       \/ vo.a.fetch[1] = ConnectionClosed /\ vo.a.fetch[2] = "receipt"

\* The logs of the fetched receipt that are OrderStarted events.
OrderEventIndexes ==
    {i \in DOMAIN vo.a.receipt.logs :
        vo.a.receipt.logs[i].topic = "OrderStarted" /\ vo.a.receipt.logs[i].wellFormed}

\* The first OrderStarted event of the fetched receipt.
FirstOrderEvent ==
    vo.a.receipt.logs[CHOOSE i \in OrderEventIndexes : \A j \in OrderEventIndexes : i <= j]

\* The sum of the values of the Transfer events of logs[from..] addressed to to.
RECURSIVE TransferredTo(_, _, _)
TransferredTo(logs, to, from) ==
    IF from > Len(logs) THEN 0
    ELSE (IF logs[from].topic = "Transfer" /\ logs[from].wellFormed /\ logs[from].args.to = to
          THEN logs[from].args.value ELSE 0) + TransferredTo(logs, to, from + 1)

\* The errors of the steps before the expiry check, the fee check, the sender
\* check and the payment check.
BeforeExpiry ==
    {ConnectionClosed, TimeExhausted, NoReceipt, TransactionFailed, NoOrderEvent,
     AmbiguousOrderEvent, AssetMismatch, ServiceMismatch}
BeforeFee == BeforeExpiry \cup {Expired}
BeforePayment == BeforeFee \cup {ExcessiveMarketFee, SenderMismatch, NoMatchingTransfer}

\* C4: a receipt with status 0 makes verify_order_tx fail with "order transaction
\* failed.", whatever events it holds and whatever the arguments are, and the only
\* chain calls made are the fetches of the receipt: nothing is decoded.
C4_RevertedFails ==
    (GotReceipt /\ vo.a.receipt.status = 0)
        => /\ vo.out.raised = TransactionFailed
           /\ \A i \in DOMAIN vo.out.calls : vo.out.calls[i] = "wait_for_transaction_receipt"

\* C4 witness: a reverted receipt that holds an OrderStarted event and transfers
\* to the minter was rejected as failed.
C4_Witness ==
    /\ GotReceipt /\ vo.a.receipt.status = 0
    /\ OrderEventIndexes /= {}
    /\ TransferredTo(vo.a.receipt.logs, vo.a.contract.minter, 1) >= 993
    /\ vo.out.raised = TransactionFailed

\* C5: with a successful receipt, zero OrderStarted events give NoOrderEvent, two
\* or more give AmbiguousOrderEvent, and exactly one gives neither; logs that do
\* not decode as OrderStarted do not count.
C5_ExactlyOneOrderEvent ==
    (GotReceipt /\ vo.a.receipt.status /= 0)
        => /\ Cardinality(OrderEventIndexes) = 0 <=> vo.out.raised = NoOrderEvent
           /\ Cardinality(OrderEventIndexes) >= 2 <=> vo.out.raised = AmbiguousOrderEvent

\* C5 witness: a receipt with two OrderStarted events and two logs that do not
\* decode was rejected as ambiguous.
C5_Witness ==
    /\ GotReceipt /\ vo.a.receipt.status /= 0
    /\ Cardinality(OrderEventIndexes) = 2
    /\ \E i \in DOMAIN vo.a.receipt.logs : ~vo.a.receipt.logs[i].wellFormed
    /\ vo.out.raised = AmbiguousOrderEvent

\* C6 (as claimed): an accepted order has an OrderStarted event whose recorded
\* asset (the datatoken that emitted it) is the datatoken contract of the service,
\* and whose service index is that of the service.
C6_EventAssetMatches ==
    (vo.pc = "done" /\ vo.out.raised = None)
        => /\ lower(remove_0x_prefix(vo.out.ret[1].order_log.address))
                = lower(remove_0x_prefix(vo.a.contract.address))
           /\ str(PyInt(vo.out.ret[1].order_log.args.serviceId)) = str(vo.a.service.index)

\* C7: with delta = now - event.timestamp, a call that got past the identity
\* checks raises Expired exactly when timeout /= 0 and delta > timeout.
C7_ExpiredIff ==
    (vo.pc = "done" /\ vo.out.raised \notin BeforeExpiry)
        => LET delta == vo.a.now - FirstOrderEvent.args.timestamp
               timeout == vo.a.service.timeout
           IN  vo.out.raised = Expired <=> (timeout /= 0 /\ delta > timeout)

\* C7 witness: an order with delta == timeout (and timeout /= 0) was accepted.
C7_Witness ==
    /\ vo.pc = "done" /\ vo.out.raised = None
    /\ vo.a.service.timeout /= 0
    /\ vo.a.now - FirstOrderEvent.args.timestamp = vo.a.service.timeout

\* C8: for a call that got past the expiry check, with a fee collector and a
\* non-zero market fee the call raises ExcessiveMarketFee exactly when marketFee >
\* maxMarketFee(amount) + 5 and otherwise target_amount is amount - providerFee -
\* marketFee; without collector or with a zero fee the bound is not checked and
\* target_amount is amount - providerFee.
C8_MarketFee ==
    (vo.pc = "done" /\ vo.out.raised \notin BeforeFee)
        => LET ev == FirstOrderEvent.args
               collected == ev.mrktFeeCollector /= "" /\ ev.marketFee > 0
               base == vo.a.amount - calculateFee(vo.a.amount, OPF_FEE_PER_TOKEN)
               max == calculateFee(vo.a.amount, MAX_MARKET_FEE_PER_TOKEN)
           IN  IF collected /\ ev.marketFee > max + 5
               THEN vo.out.raised = ExcessiveMarketFee
               ELSE /\ vo.out.raised /= ExcessiveMarketFee
                    /\ vo.out.target_amount
                         = <<base - (IF collected THEN ev.marketFee ELSE 0)>>

\* C8 witness: a market fee of exactly maxMarketFee + 5 passed the fee check and
\* was taken off the target amount.
C8_Witness ==
    /\ vo.pc = "done" /\ vo.out.raised \notin BeforeFee
    /\ FirstOrderEvent.args.mrktFeeCollector /= ""
    /\ FirstOrderEvent.args.marketFee
         = calculateFee(vo.a.amount, MAX_MARKET_FEE_PER_TOKEN) + 5
    /\ vo.out.target_amount = <<993>>

\* C9 (as claimed): an accepted order was sent on chain by the consumer or the
\* payer of the OrderStarted event (the from address of the transaction record).
C9_TxSenderIsConsumerOrPayer ==
    (vo.pc = "done" /\ vo.out.raised = None)
        => vo.a.tx.from \in {vo.out.ret[1].order_log.args.consumer,
                             vo.out.ret[1].order_log.args.payer}

\* C10: a call that reached the payment check raises InsufficientPayment exactly
\* when the sum of all Transfer events to the minter is less than
\* target_amount - 5.
C10_InsufficientIff ==
    (vo.pc = "done" /\ vo.out.raised \notin BeforePayment)
        => (vo.out.raised = InsufficientPayment
              <=> TransferredTo(vo.a.receipt.logs, vo.a.contract.minter, 1)
                    < vo.out.target_amount[1] - 5)

\* C10 witness: two transfers to the minter that sum to exactly target_amount - 5
\* (beside a transfer to another address) were accepted.
C10_Witness ==
    /\ vo.pc = "done" /\ vo.out.raised = None
    /\ TransferredTo(vo.a.receipt.logs, vo.a.contract.minter, 1) = vo.out.target_amount[1] - 5
    /\ TransferredTo(vo.a.receipt.logs, vo.a.contract.minter, 1) = 994
    /\ Cardinality({i \in DOMAIN vo.a.receipt.logs :
                       vo.a.receipt.logs[i].topic = "Transfer"}) = 2

\* The errors of the steps before the transfers are decoded.
BeforeTransfers == BeforeFee \cup {ExcessiveMarketFee, SenderMismatch}

\* The Transfer events of the fetched receipt addressed to the minter.
MinterTransferIndexes ==
    {i \in DOMAIN vo.a.receipt.logs :
        /\ vo.a.receipt.logs[i].topic = "Transfer"
        /\ vo.a.receipt.logs[i].wellFormed
        /\ vo.a.receipt.logs[i].args.to = vo.a.contract.minter}

\* C11: a call that reached the transfers raises NoMatchingTransfer exactly when
\* the receipt has no Transfer event addressed to the minter of the datatoken,
\* whatever the target amount is.
C11_NoMatchingTransfer ==
    (vo.pc = "done" /\ vo.out.raised \notin BeforeTransfers)
        => (vo.out.raised = NoMatchingTransfer <=> MinterTransferIndexes = {})

\* C11 witness: with a target amount of 5, which a sum of 0 would satisfy, a
\* receipt whose only transfer goes to another address was rejected.
C11_Witness ==
    /\ vo.pc = "done" /\ vo.out.raised = NoMatchingTransfer
    /\ vo.out.target_amount = <<5>>
    /\ MinterTransferIndexes = {}
    /\ \E i \in DOMAIN vo.a.receipt.logs : vo.a.receipt.logs[i].topic = "Transfer"

\* The conditions of a valid order, as verify_order_tx reads them.
ValidOrder ==
    /\ GotReceipt /\ vo.a.receipt.status /= 0
    /\ Cardinality(OrderEventIndexes) = 1
    /\ lower(remove_0x_prefix(vo.a.did)) = lower(remove_0x_prefix(vo.a.contract.address))
    /\ str(PyInt(FirstOrderEvent.args.serviceId)) = str(vo.a.service.index)
    /\ \/ vo.a.service.timeout = 0
       \/ vo.a.now - FirstOrderEvent.args.timestamp <= vo.a.service.timeout
    /\ \/ FirstOrderEvent.args.mrktFeeCollector = ""
       \/ FirstOrderEvent.args.marketFee = 0
       \/ FirstOrderEvent.args.marketFee
            <= calculateFee(vo.a.amount, MAX_MARKET_FEE_PER_TOKEN) + 5
    /\ vo.a.sender \in {FirstOrderEvent.args.consumer, FirstOrderEvent.args.payer}
    /\ MinterTransferIndexes /= {}
    /\ TransferredTo(vo.a.receipt.logs, vo.a.contract.minter, 1)
         >= (vo.a.amount - calculateFee(vo.a.amount, OPF_FEE_PER_TOKEN)
               - (IF FirstOrderEvent.args.mrktFeeCollector /= ""
                  THEN FirstOrderEvent.args.marketFee ELSE 0)) - 5

\* C12: a valid order is accepted, and the call returns its OrderStarted event
\* and a Transfer event addressed to the minter than which no transfer to the
\* minter has a greater value.
C12_ValidOrderAccepted ==
    ValidOrder
        => /\ vo.out.raised = None
           /\ vo.out.ret[1].order_log = FirstOrderEvent
           /\ \E i \in MinterTransferIndexes :
                 vo.out.ret[1].transfer = vo.a.receipt.logs[i]
           /\ \A i \in MinterTransferIndexes :
                 vo.a.receipt.logs[i].args.value <= vo.out.ret[1].transfer.args.value

\* C12 witness: of two transfers to the minter the first in the receipt is the
\* greater, and it is the one returned.
C12_Witness ==
    /\ ValidOrder /\ vo.out.raised = None
    /\ Cardinality(MinterTransferIndexes) = 2
    /\ LET first == CHOOSE i \in MinterTransferIndexes :
                       \A j \in MinterTransferIndexes : i <= j
       IN  /\ vo.a.receipt.logs[first].args.value = 993
           /\ vo.out.ret[1].transfer = vo.a.receipt.logs[first]
    /\ \E i \in MinterTransferIndexes : vo.a.receipt.logs[i].args.value = 1

\* The number of attempts to fetch the receipt that a call made.
FetchAttempts ==
    Cardinality({i \in DOMAIN vo.out.calls :
                    vo.out.calls[i] = "wait_for_transaction_receipt"})

\* C13: a call fetches the receipt once, and a second time exactly when the
\* first attempt failed with a closed connection; a closed connection on the
\* retry is raised to the caller, and so is any other error of the first
\* attempt; there is no third attempt.
C13_RetryOnce ==
    vo.pc = "done"
        => /\ FetchAttempts = (IF vo.a.fetch[1] = ConnectionClosed THEN 2 ELSE 1)
           /\ (vo.a.fetch[1] = ConnectionClosed /\ vo.a.fetch[2] = ConnectionClosed)
                 => vo.out.raised = ConnectionClosed
           /\ (vo.a.fetch[1] = ConnectionClosed /\ vo.a.fetch[2] = TimeExhausted)
                 => vo.out.raised = TimeExhausted
           /\ vo.a.fetch[1] = TimeExhausted => vo.out.raised = TimeExhausted
           /\ vo.a.fetch[1] = None => vo.out.raised = NoReceipt

\* C13 witness: the connection was closed twice; the call failed after two
\* attempts although a third would have been answered with the receipt.
C13_Witness ==
    /\ vo.pc = "done"
    /\ vo.a.fetch = <<ConnectionClosed, ConnectionClosed, "receipt">>
    /\ FetchAttempts = 2
    /\ vo.out.raised = ConnectionClosed

(***************************************************************************)
(* Properties of the ConsumptionLedger, checked under SpecLedger (one      *)
(* request at a time) and SpecRace (two requests in flight).               *)
(***************************************************************************)
\* The (did, service id, tx id) a validator presents to the ledger: of the
\* item at index, or of the algorithm (index -1).
Presented(w) ==
    IF w.index >= 0
    THEN [did |-> input_item(w).documentId, service_id |-> w.service[1].id,
          tx_id |-> input_item(w).transferTxId]
    ELSE [did |-> w.data.algorithm.documentId, service_id |-> w.algo_service[1].id,
          tx_id |-> w.data.algorithm.transferTxId]

AtCheck(w) == w.pc \in {"usage_check", "algo_check"}
AtRecord(w) == w.pc \in {"usage_record", "algo_record"}

BoundElsewhere(rows, t) ==
    \E r \in rows : r.tx_id = t.tx_id /\ (r.did /= t.did \/ r.service_id /= t.service_id)
BoundHere(rows, t) ==
    \E r \in rows : r.tx_id = t.tx_id /\ r.did = t.did /\ r.service_id = t.service_id

\* C1: after any sequence of item and algorithm validations every transaction
\* id of the ledger is bound to one (did, service id) pair; a validation that
\* presents a transaction id bound to another pair fails at the replay check
\* with TransferAlreadyUsed and the ledger stays as it is; the ledger changes
\* only by the record of a validation whose transaction id is not bound to
\* another pair.
C1_OneBindingPerTx ==
    /\ [](\A r1, r2 \in ledger :
            r1.tx_id = r2.tx_id => r1.did = r2.did /\ r1.service_id = r2.service_id)
    /\ [][\A p \in DOMAIN rq :
            (/\ AtCheck(rq[p])
             /\ BoundElsewhere(ledger, Presented(rq[p]))
             /\ rq'[p] /= rq[p])
            => /\ rq'[p].pc = "failed"
               /\ rq'[p].raised = TransferAlreadyUsed
               /\ ledger' = ledger]_vars
    /\ [][ledger' /= ledger =>
            \E p \in DOMAIN rq : /\ AtRecord(rq[p])
                                 /\ rq'[p] /= rq[p]
                                 /\ ~BoundElsewhere(ledger, Presented(rq[p]))]_vars

\* A validation was refused because its transaction id is bound to another pair.
C1_Witness ==
    \E p \in DOMAIN rq :
        /\ rq[p].pc = "failed"
        /\ rq[p].raised = TransferAlreadyUsed
        /\ BoundElsewhere(ledger, Presented(rq[p]))

\* C2: of two requests in flight that present the same transaction id for
\* different (did, service id) pairs at most one records, in every
\* interleaving of their steps: the ledger never holds two rows of one
\* transaction id.
C2_RaceBindsOnePair ==
    \A r1, r2 \in ledger : r1.tx_id = r2.tx_id => r1 = r2

\* Both requests passed the replay check before either recorded, and the
\* record of the second was refused.
C2_Witness ==
    \E p, q \in DOMAIN rq :
        /\ rq[p].pc = "failed"
        /\ rq[p].raised = TransferAlreadyUsed
        /\ rq[p].calls[Len(rq[p].calls)][1] = "record_consume_request"
        /\ rq[q].pc \notin {"idle", "failed", "crashed"}
        /\ BoundElsewhere(ledger, Presented(rq[p]))

\* C3: a validation that presents a transaction id for the pair it is bound to
\* passes the replay check, and its record adds one to the use counter of the
\* row, however often it is repeated; no step deletes a row or binds it to
\* another pair or lowers its counter.
C3_RepeatIncrements ==
    /\ [][\A p \in DOMAIN rq :
            (/\ AtCheck(rq[p])
             /\ BoundHere(ledger, Presented(rq[p]))
             /\ rq'[p] /= rq[p])
            => AtRecord(rq'[p]) /\ ledger' = ledger]_vars
    /\ [][\A p \in DOMAIN rq :
            (/\ AtRecord(rq[p])
             /\ BoundHere(ledger, Presented(rq[p]))
             /\ rq'[p] /= rq[p])
            => LET t == Presented(rq[p]) IN
               /\ rq'[p].pc \notin {"failed", "crashed"}
               /\ Uses(ledger', t.did, t.service_id, t.tx_id)
                    = Uses(ledger, t.did, t.service_id, t.tx_id) + 1
               /\ Cardinality(ledger') = Cardinality(ledger)]_vars
    /\ [][\A r \in ledger :
            \E r2 \in ledger' : /\ r2.tx_id = r.tx_id
                                /\ r2.did = r.did
                                /\ r2.service_id = r.service_id
                                /\ r2.consumer = r.consumer
                                /\ r2.uses >= r.uses]_vars

\* A row was recorded again for the pair it is bound to.
C3_Witness == \E r \in ledger : r.uses >= 2

(***************************************************************************)
(* Properties of the validators, checked under SpecWorkflow.               *)
(***************************************************************************)
\* The requests in flight.
Active == {p \in DOMAIN rq : rq[p].pc /= "idle"}

\* The number of input items of the request of a validator.
ItemCount(w) == 1 + Len(w.data.additionalDatasets)

\* C14: a stage is in workflow.stages only when validate returned True, and then
\* every input item was validated (in index order), the algorithm after them and
\* the output after the algorithm; the stage holds these results. While the
\* validation runs, and when it failed or raised, workflow.stages is empty, and
\* the algorithm is validated only after all items, the output only after the
\* algorithm.
C14_StageOnlyWhenAllPassed ==
    \A p \in Active :
        LET w == rq[p] IN
        /\ w.stages /= <<>> <=> w.pc = "done"
        /\ w.validated_algo_dict /= <<>> => Len(w.validated_inputs) = ItemCount(w)
        /\ w.validated_output_dict /= <<>> => w.validated_algo_dict /= <<>>
        /\ \A i \in DOMAIN w.validated_inputs :
              /\ w.validated_inputs[i].index = i - 1
              /\ w.validated_inputs[i].id = all_data(w.data)[i].documentId
        /\ w.pc = "done" =>
              /\ w.validated_output_dict /= <<>>
              /\ w.stages = <<[index |-> 0, input |-> w.validated_inputs,
                               compute |-> [Instances |-> 1, namespace |-> "ocean-compute",
                                            maxtime |-> 3600],
                               algorithm |-> w.validated_algo_dict[1],
                               output |-> w.validated_output_dict[1]]>>

\* C14 witness: a workflow with two inputs was authorized; its stage holds
\* both inputs, the algorithm and the output.
C14_Witness ==
    \E p \in Active :
        /\ rq[p].pc = "done"
        /\ Len(rq[p].stages) = 1
        /\ Len(rq[p].stages[1].input) = 2
        /\ rq[p].stages[1].algorithm = rq[p].validated_algo_dict[1]

\* C15: the collaborators are consulted for the items in index order and for
\* the algorithm last; validate_input has an error only when it returned False;
\* when the item at index k failed, the items before it passed, nothing was
\* asked or recorded for an item after it or for the algorithm, and the error is
\* a reason of item k, prefixed with the index unless k is 0.
C15_StopsAtFirstFailure ==
    \A p \in Active :
        LET w == rq[p]
            k == w.index
        IN
        /\ \A i, j \in DOMAIN w.calls :
              i < j => \/ w.calls[j][2] = -1
                       \/ w.calls[i][2] /= -1 /\ w.calls[i][2] <= w.calls[j][2]
        /\ w.error /= <<>> => w.pc = "failed"
        /\ (w.pc = "failed" /\ k >= 0) =>
              LET item == input_item(w) IN
              /\ Len(w.validated_inputs) = k
              /\ \A i \in DOMAIN w.calls : w.calls[i][2] \in 0..k
              /\ w.error[1].prefix
                   = (IF k = 0 THEN <<>> ELSE <<"Error in input at index", k>>)
              /\ \/ w.error[1].error = "Order for serviceId is not valid."
                 \/ \E consumable \in BOOLEAN, asset_urls \in {<<>>, <<"url">>} :
                       LET r == validate_item(item, k, consumable, asset_urls,
                                              compute_dict_of(w.store, item.documentId))
                       IN  r.kind = "fail" /\ r.error = w.error[1].error

\* C15 witness: the main dataset passed and was recorded, the additional
\* dataset failed for want of a transfer tx id, and nothing was asked for it or
\* for the algorithm.
C15_Witness ==
    \E p \in Active :
        /\ rq[p].pc = "failed"
        /\ rq[p].index = 1
        /\ Len(rq[p].validated_inputs) = 1
        /\ rq[p].error[1].prefix = <<"Error in input at index", 1>>
        /\ rq[p].error[1].error = "No transferTxId in input item."
        /\ rq[p].calls[Len(rq[p].calls)] = <<"record_consume_request", 0>>

\* C16: once the input items are validated, valid_until of the workflow is the
\* least of the deadlines of the items, one deadline per item, each the
\* validUntil that the order verification of the item gave.
C16_ValidUntilIsMinimum ==
    /\ [](\A p \in Active :
            LET w == rq[p] IN
            /\ Len(w.valid_until_list) = Len(w.validated_inputs)
            /\ w.valid_until /= <<>> <=>
                  (Len(w.validated_inputs) = ItemCount(w) /\ w.pc /= "usage_record")
            /\ w.valid_until /= <<>> =>
                  /\ \E i \in DOMAIN w.valid_until_list :
                        w.valid_until[1] = w.valid_until_list[i]
                  /\ \A i \in DOMAIN w.valid_until_list :
                        w.valid_until[1] <= w.valid_until_list[i])
    /\ [][\A p \in Active :
            (p \in DOMAIN rq' /\ rq'[p].pc /= "idle"
               /\ rq'[p].valid_until_list /= rq[p].valid_until_list)
            => /\ rq[p].pc = "usage_record"
               /\ rq[p].item_valid_until /= <<>>
               /\ rq'[p].valid_until_list
                    = Append(rq[p].valid_until_list, rq[p].item_valid_until[1])]_vars

\* C16 witness: of two items the second has the earlier deadline, and it is the
\* deadline of the workflow.
C16_Witness ==
    \E p \in Active :
        /\ rq[p].valid_until_list = <<9, 5>>
        /\ rq[p].valid_until = <<5>>

\* The calls made for the item at index i, in order.
ItemCalls(w, i) ==
    LET at == {j \in DOMAIN w.calls : w.calls[j][2] = i}
        nth(n) == CHOOSE j \in at : Cardinality({m \in at : m <= j}) = n
    IN  [n \in 1..Cardinality(at) |-> w.calls[nth(n)][1]]

\* C17: for every item, record_consume_request comes right after the replay
\* check, which comes right after validate_order; the replay check is made only
\* with the deadline that a successful order verification gave; an item whose
\* order verification or replay check failed has failed with that call as its
\* last, and the step that fails leaves the ledger as it is.
C17_RecordAfterOrderAndCheck ==
    /\ [](\A p \in Active :
            LET w == rq[p] IN
            /\ \A i \in 0..(ItemCount(w) - 1) :
                  LET c == ItemCalls(w, i) IN
                  \A n \in DOMAIN c :
                     /\ c[n] = "record_consume_request"
                          => n > 2
                             /\ c[n - 1] = "validate_transfer_not_used_for_other_service"
                             /\ c[n - 2] = "validate_order"
                     /\ c[n] = "validate_transfer_not_used_for_other_service"
                          => n > 1 /\ c[n - 1] = "validate_order"
            /\ w.pc \in {"usage_check", "usage_record"} => w.item_valid_until /= <<>>
            /\ (w.pc = "failed" /\ w.index >= 0 /\ w.raised = OrderFailed)
                  => w.calls[Len(w.calls)] = <<"validate_order", w.index>>)
    /\ [][\A p \in Active :
            /\ (rq[p].pc = "usage_order" /\ rq'[p] /= rq[p]) => ledger' = ledger
            /\ (rq[p].pc = "usage_check" /\ rq'[p] /= rq[p]) =>
                  /\ ledger' = ledger
                  /\ BoundElsewhere(ledger, Presented(rq[p])) =>
                        /\ rq'[p].pc = "failed"
                        /\ rq'[p].calls[Len(rq'[p].calls)]
                             = <<"validate_transfer_not_used_for_other_service",
                                 rq[p].index>>
            /\ (ledger' /= ledger /\ rq'[p] /= rq[p] /\ rq[p].index >= 0)
                  => rq[p].pc = "usage_record"]_vars

\* C17 witness: the order of an additional dataset was verified, its replay
\* check failed, and nothing was recorded for it.
C17_Witness ==
    \E p \in Active :
        /\ rq[p].pc = "failed"
        /\ rq[p].index = 1
        /\ rq[p].raised = TransferAlreadyUsed
        /\ ItemCalls(rq[p], 1)
             = <<"get_asset_from_metadatastore", "check_asset_consumable",
                 "get_service_files_list", "validate_order",
                 "validate_transfer_not_used_for_other_service">>
        /\ ItemCalls(rq[p], 0)[Len(ItemCalls(rq[p], 0))] = "record_consume_request"

\* The calls that reach the chain or the ledger.
ChainOrLedgerCalls ==
    {"validate_order", "validate_transfer_not_used_for_other_service",
     "record_consume_request"}

\* C18: an item that check_asset_consumable answered not consumable has failed
\* with that as its reason, right after the check: the asset was resolved and
\* checked, and neither the files, nor the order, nor the ledger were asked for
\* it.
C18_NotConsumableStopsEarly ==
    \A p \in Active :
        LET w == rq[p] IN
        \A i \in DOMAIN w.consumable :
            ~w.consumable[i] =>
                /\ w.pc = "failed"
                /\ w.index = i - 1
                /\ w.error[1].error = "asset is not consumable"
                /\ ItemCalls(w, i - 1)
                     = <<"get_asset_from_metadatastore", "check_asset_consumable">>
                /\ \A j \in DOMAIN w.calls :
                      w.calls[j][2] = i - 1 => w.calls[j][1] \notin ChainOrLedgerCalls
                /\ w.calls[Len(w.calls)] = <<"check_asset_consumable", i - 1>>

\* C18 witness: the main dataset was recorded, the additional dataset is not
\* consumable and was rejected without a call to the chain or the ledger.
C18_Witness ==
    \E p \in Active :
        /\ rq[p].pc = "failed"
        /\ rq[p].consumable = <<TRUE, FALSE>>
        /\ rq[p].error[1].error = "asset is not consumable"
        /\ ItemCalls(rq[p], 1) = <<"get_asset_from_metadatastore", "check_asset_consumable">>

(***************************************************************************)
(* Properties of _validate_trusted_algos, checked under SpecTrust.         *)
(***************************************************************************)
\* The algorithm asked for is registered and its owner is a trusted publisher.
OwnerTrusted ==
    /\ AssetExists(vo.a.algorithm_did)
    /\ \E i \in DOMAIN vo.a.trusted_publishers :
          vo.a.trusted_publishers[i] = AssetOwner(vo.a.algorithm_did)

\* The did of the algorithm asked for is in the list of trusted algorithms.
DidListed ==
    \E i \in DOMAIN vo.a.trusted_algorithms :
        vo.a.trusted_algorithms[i].did = vo.a.algorithm_did

\* C19: with trusted algorithms and trusted publishers both configured, an
\* algorithm is accepted only if its owner is a trusted publisher and its did is
\* listed; an algorithm of a trusted publisher whose did is not listed is
\* rejected as not trusted.
C19_BothListsBothChecks ==
    (vo.pc = "trusted" /\ vo.a.trusted_algorithms /= <<>> /\ vo.a.trusted_publishers /= <<>>)
        => /\ vo.out.kind = "ok" => OwnerTrusted /\ DidListed
           /\ (OwnerTrusted /\ ~DidListed)
                 => vo.out = Fail("this algorithm did is not trusted.")

\* C19 witness: the algorithm is owned by a trusted publisher and the list
\* names another did only; it was rejected.
C19_Witness ==
    /\ vo.pc = "trusted"
    /\ vo.a.algorithm_did = ALG
    /\ vo.a.trusted_publishers = <<PubA>>
    /\ vo.a.trusted_algorithms /= <<>>
    /\ ~DidListed
    /\ vo.out = Fail("this algorithm did is not trusted.")

\* C20: with trusted publishers configured, a registered algorithm whose owner
\* is not among them is rejected as not from a trusted publisher, with or
\* without trusted algorithms; with neither list configured every algorithm did
\* is accepted.
C20_PublisherList ==
    vo.pc = "trusted"
        => /\ (vo.a.trusted_publishers /= <<>> /\ AssetExists(vo.a.algorithm_did)
                 /\ ~OwnerTrusted)
                 => vo.out = Fail("this algorithm is not from a trusted publisher")
           /\ (vo.a.trusted_publishers = <<>> /\ vo.a.trusted_algorithms = <<>>)
                 => vo.out = Ok

\* C20 witness: no trusted algorithms are configured, the owner of the
\* algorithm is not a trusted publisher, and the algorithm was rejected.
C20_Witness ==
    /\ vo.pc = "trusted"
    /\ vo.a.trusted_algorithms = <<>>
    /\ vo.a.trusted_publishers = <<Pub1>>
    /\ vo.a.algorithm_did = ALG
    /\ vo.out = Fail("this algorithm is not from a trusted publisher")

\* The entry of the did of the algorithm that the dict built from the list
\* holds: the last one of the list.
MatchingEntry ==
    LET l == vo.a.trusted_algorithms
        last == CHOOSE i \in DOMAIN l :
                    /\ l[i].did = vo.a.algorithm_did
                    /\ \A j \in DOMAIN l : l[j].did = vo.a.algorithm_did => j <= i
    IN  l[last]

\* The publisher check lets the algorithm through to the algorithm list.
PublisherCheckPassed == vo.a.trusted_publishers = <<>> \/ OwnerTrusted

\* The current checksums of the algorithm asked for.
CurrentFilesChecksum ==
    msg_hash(EncryptedFiles(vo.a.algorithm_did, vo.a.data.algorithm.serviceId))
CurrentContainerChecksum == msg_hash(ContainerOf(vo.a.algorithm_did))

\* C21: for a registered algorithm whose did is in the list of trusted
\* algorithms (and that the publisher check let through), a files checksum that
\* the entry of the did pins and that differs from the current one is rejected
\* as a files checksum mismatch, else a pinned container checksum that differs
\* from the current one as a container checksum mismatch; with every pinned
\* checksum equal to the current one, and whatever the current value of a
\* checksum that is not pinned, the algorithm is accepted.
C21_PinnedChecksumsEnforced ==
    (/\ vo.pc = "trusted"
     /\ DidListed
     /\ PublisherCheckPassed
     /\ ServiceExists(vo.a.algorithm_did, vo.a.data.algorithm.serviceId))
        => LET e == MatchingEntry
               files_differ == e.filesChecksum /= <<>>
                               /\ e.filesChecksum /= CurrentFilesChecksum
               container_differs == e.containerSectionChecksum /= <<>>
                                    /\ e.containerSectionChecksum /= CurrentContainerChecksum
           IN  /\ files_differ
                     => vo.out = Fail("filesChecksum for algorithm does not match")
               /\ (~files_differ /\ container_differs)
                     => vo.out = Fail("containerSectionChecksum for algorithm does not match")
               /\ (~files_differ /\ ~container_differs) => vo.out = Ok

\* C21 witness: the entry of the algorithm pins the current files checksum and
\* another container checksum; the algorithm was rejected for the container.
C21_Witness ==
    /\ vo.pc = "trusted"
    /\ vo.a.algorithm_did = ALG
    /\ vo.a.data.algorithm.serviceId = PyInt(1)
    /\ vo.a.trusted_publishers = <<>>
    /\ vo.a.trusted_algorithms
         = <<TrustedAlgo(ALG, msg_hash(EncryptedFiles(ALG, PyInt(1))),
                         msg_hash(ContainerOf(D2)))>>
    /\ vo.out = Fail("containerSectionChecksum for algorithm does not match")

(***************************************************************************)
(* Properties of the policy checks of an input item, checked under         *)
(* SpecWorkflow.                                                           *)
(***************************************************************************)
\* The algorithm of a request is raw: no documentId, given by meta.
IsRaw(algo_data) == ~TruthyStr(algo_data.documentId) /\ algo_data.meta /= None

\* The item at index i of a request, its service type and the privacy options
\* of its service.
ItemAt(w, i) == all_data(w.data)[i + 1]
ItemServiceType(w, i) == ServiceType(ItemAt(w, i).documentId, ItemAt(w, i).serviceId)
ItemPolicy(w, i) == compute_dict_of(w.store, ItemAt(w, i).documentId)

\* The service configures allowRawAlgorithm and it is true.
AllowsRaw(pol) == "allowRawAlgorithm" \in DOMAIN pol /\ pol.allowRawAlgorithm = TRUE

RawAlgorithmForbidden == "cannot run raw algorithm on this did."
NotSameProvider ==
    "Services in input with compute type must be in the same provider you are calling."

\* The files of the item at index i were asked for.
FilesAsked(w, i) ==
    \E n \in DOMAIN ItemCalls(w, i) : ItemCalls(w, i)[n] = "get_service_files_list"

\* Neither the chain nor the ledger was asked for the item at index i.
NoChainOrLedgerCall(w, i) ==
    \A j \in DOMAIN w.calls : w.calls[j][2] = i => w.calls[j][1] \notin ChainOrLedgerCalls

\* C22: with a raw algorithm, a compute item that got as far as the algorithm
\* policy is refused by it exactly when allowRawAlgorithm of its service is not
\* true (false, or not configured): the item has then failed as raw algorithm
\* forbidden (unless its files did not resolve, which fails it one step before),
\* nothing was asked of the chain or the ledger for it and no stage is built; a
\* service that allows raw algorithms never gives that error, and a workflow
\* that was finalized with a raw algorithm has only compute items that allow it.
C22_RawAlgorithmNeedsPermission ==
    \A p \in Active :
        LET w == rq[p] IN
        IsRaw(w.data.algorithm) =>
            /\ \A i \in 0..(ItemCount(w) - 1) :
                  (FilesAsked(w, i) /\ ItemServiceType(w, i) = "compute") =>
                      IF AllowsRaw(ItemPolicy(w, i))
                      THEN ~(w.pc = "failed" /\ w.index = i
                             /\ w.error[1].error = RawAlgorithmForbidden)
                      ELSE /\ w.pc = "failed"
                           /\ w.index = i
                           /\ w.error[1].error \in {RawAlgorithmForbidden, NotSameProvider}
                           /\ NoChainOrLedgerCall(w, i)
                           /\ w.stages = <<>>
            /\ (w.pc = "failed" /\ w.index >= 0
                  /\ w.error[1].error = RawAlgorithmForbidden)
                  => /\ ItemServiceType(w, w.index) = "compute"
                     /\ ~AllowsRaw(ItemPolicy(w, w.index))
                     /\ FilesAsked(w, w.index)
            /\ w.pc = "done" =>
                  \A i \in 0..(ItemCount(w) - 1) :
                      ItemServiceType(w, i) = "compute" => AllowsRaw(ItemPolicy(w, i))

\* C22 witness: the service of the main dataset does not configure
\* allowRawAlgorithm; the raw algorithm was refused for it after the files were
\* resolved, and the order was never verified.
C22_Witness ==
    \E p \in Active :
        /\ IsRaw(rq[p].data.algorithm)
        /\ rq[p].store[D1] = NoOptions
        /\ rq[p].pc = "failed"
        /\ rq[p].index = 0
        /\ rq[p].error[1].error = RawAlgorithmForbidden
        /\ ItemCalls(rq[p], 0)
             = <<"get_asset_from_metadatastore", "check_asset_consumable",
                 "get_service_files_list">>
        /\ rq[p].stages = <<>>

OnlyAccessOrCompute == "Services in input can only be access or compute."
MainMustBeCompute == "Service for main asset must be compute."

\* The item at index i has failed with one of the errors.
FailedWith(w, i, errors) ==
    w.pc = "failed" /\ w.index = i /\ w.error[1].error \in errors

\* The item at index i was found consumable.
FoundConsumable(w, i) == (i + 1) \in DOMAIN w.consumable /\ w.consumable[i + 1]

\* C23: every input that InputItemValidator accepted has a service of type
\* access or compute, of type compute at index 0, and a compute service only
\* with files that resolved through this provider. Of the items found
\* consumable, one whose service is of another type has failed for the type at
\* every index, an access service has failed for the type at index 0 and is let
\* through to the files, with or without files that resolve, at a later index,
\* and a compute service is let through to the files at every index.
C23_ServiceTypeAndLocality ==
    \A p \in Active :
        LET w == rq[p]
            accepted == w.validated_inputs \o w.item_inputs
        IN  /\ \A n \in DOMAIN accepted :
                  LET i == accepted[n].index
                      type == ItemServiceType(w, i)
                  IN  /\ i = n - 1
                      /\ type \in {"access", "compute"}
                      /\ i = 0 => type = "compute"
                      /\ type = "compute" => accepted[n].url /= <<>>
            /\ \A i \in 0..(ItemCount(w) - 1) :
                  FoundConsumable(w, i) =>
                      LET type == ItemServiceType(w, i) IN
                      /\ type \notin {"access", "compute"}
                            => FailedWith(w, i, {OnlyAccessOrCompute}) /\ ~FilesAsked(w, i)
                      /\ (type = "access" /\ i = 0)
                            => FailedWith(w, i, {MainMustBeCompute}) /\ ~FilesAsked(w, i)
                      /\ (type = "access" /\ i > 0)
                            => /\ FilesAsked(w, i)
                               /\ ~FailedWith(w, i, {OnlyAccessOrCompute, MainMustBeCompute,
                                                     NotSameProvider})
                      /\ type = "compute"
                            => /\ FilesAsked(w, i)
                               /\ ~FailedWith(w, i, {OnlyAccessOrCompute, MainMustBeCompute})

\* C23 witness: the main dataset was accepted, and the additional dataset, a
\* compute service whose files do not resolve through this provider, was
\* rejected for that.
C23_Witness ==
    \E p \in Active :
        /\ ItemCount(rq[p]) = 2
        /\ Len(rq[p].validated_inputs) = 1
        /\ ItemServiceType(rq[p], 1) = "compute"
        /\ FoundConsumable(rq[p], 1)
        /\ FailedWith(rq[p], 1, {NotSameProvider})

\* The messages that InputItemValidator.validate can set for the item under
\* validation before validate_usage, whatever the collaborators answer.
ItemMessages(w) ==
    LET results ==
            {validate_item(input_item(w), w.index, consumable, asset_urls,
                           compute_dict_of(w.store, input_item(w).documentId)) :
                consumable \in BOOLEAN, asset_urls \in {<<>>, <<"url">>}}
    IN  {r.error : r \in {x \in results : x.kind = "fail"}}

\* C24: the error of a workflow whose input item at index k failed is the
\* message of that item (one of validate, or the one of validate_usage with the
\* exception it caught), with no prefix when k is 0 and with the prefix that
\* names the position k when k is greater than 0.
C24_ErrorPrefixFromIndexOne ==
    \A p \in Active :
        LET w == rq[p] IN
        (w.pc = "failed" /\ w.index >= 0) =>
            /\ Len(w.error) = 1
            /\ w.error[1].prefix
                 = (IF w.index = 0 THEN <<>> ELSE <<"Error in input at index", w.index>>)
            /\ \/ /\ w.error[1].cause = None
                  /\ w.error[1].error \in ItemMessages(w)
               \/ /\ w.error[1].cause /= None
                  /\ w.error[1].cause = w.raised
                  /\ w.error[1].error = "Order for serviceId is not valid."

\* C24 witness: the additional dataset has no transferTxId; the error of the
\* workflow is its message behind the prefix of index 1.
C24_Witness ==
    \E p \in Active :
        /\ rq[p].pc = "failed"
        /\ rq[p].index = 1
        /\ rq[p].error
             = <<[prefix |-> <<"Error in input at index", 1>>,
                  error |-> "No transferTxId in input item.", cause |-> None]>>

(***************************************************************************)
(* Properties of the signature rules, checked under SpecSignature.         *)
(***************************************************************************)
\* The field of the request under validation, "" when it is absent or empty.
Field(name) == OrEmpty(_attribute_value(vo.a.request, name))

\* C25: each rule calls verify_signature with the signature and the nonce of
\* the request, the claimed signer, and the payload of its scheme: owner, job id,
\* did for the request signature; the did alone for the download signature; the
\* transaction id (the data NFT address when there is none), the decrypter
\* address and the chain id for the decrypt signature. The rule returns True
\* exactly when verify_signature does not raise InvalidSignatureError.
C25_SignaturePayloads ==
    vo.pc = "signature" =>
        LET request == vo.a.request
            call == vo.out.call
        IN  /\ call.signature = request.signature
            /\ call.nonce = request.nonce
            /\ call.signer_address = vo.a.signer
            /\ vo.a.rule = "signature" =>
                  /\ vo.a.signer = request.consumerAddress
                  /\ call.original_msg
                       = Field("consumerAddress") \o Field("jobId") \o Field("documentId")
            /\ vo.a.rule = "download_signature" =>
                  /\ vo.a.signer = request.consumerAddress
                  /\ call.original_msg = request.documentId
            /\ vo.a.rule = "decrypt_signature" =>
                  /\ vo.a.signer = request.decrypterAddress
                  /\ call.original_msg
                       = (IF Field("transactionId") /= "" THEN request.transactionId
                          ELSE request.dataNftAddress)
                         \o request.decrypterAddress \o str(request.chainId)
            /\ vo.out.ret
                 <=> verify_signature(ledger, call.signer_address, call.signature,
                                      call.original_msg, call.nonce)
                       /= InvalidSignatureError

\* C25 witness: a request signed over owner, did, job id, in the order that is
\* not the one of the scheme, was refused by the request signature rule.
C25_Witness ==
    /\ vo.pc = "signature"
    /\ vo.a.rule = "signature"
    /\ "jobId" \in DOMAIN vo.a.request
    /\ vo.a.request.signature.by = vo.a.signer
    /\ vo.a.request.signature.nonce = vo.a.request.nonce
    /\ vo.a.request.signature.over
         = vo.a.request.consumerAddress \o vo.a.request.documentId \o vo.a.request.jobId
    /\ get_nonce(ledger, vo.a.signer) < vo.a.request.nonce
    /\ ~vo.out.ret

\* The signature of the request under validation was made by the claimed
\* signer over the payload and the nonce of the request.
SignatureValid ==
    /\ vo.a.request.signature.by = vo.a.signer
    /\ vo.a.request.signature.over = vo.out.call.original_msg
    /\ vo.a.request.signature.nonce = vo.a.request.nonce

\* C26: a request whose nonce is not greater than the nonce last accepted for
\* its signing address fails signature validation, whatever its signature; the
\* nonce of an address changes only when a request of the address is accepted,
\* and then to a greater one.
C26_NoncesStrictlyIncrease ==
    /\ [](vo.pc = "signature" =>
            /\ vo.a.request.nonce <= get_nonce(ledger, vo.a.signer) => ~vo.out.ret
            /\ vo.out.ret => SignatureValid)
    /\ [][\A address \in Signers :
            get_nonce(ledger', address) /= get_nonce(ledger, address)
                => /\ vo.pc = "signature"
                   /\ vo.out.ret
                   /\ vo.a.signer = address
                   /\ get_nonce(ledger', address) = vo.a.request.nonce
                   /\ get_nonce(ledger', address) > get_nonce(ledger, address)]_vars

\* C26 witness: a request was accepted with the nonce 2; the same request,
\* validly signed, is presented again and refused.
C26_Witness ==
    /\ vo.pc = "signature"
    /\ SignatureValid
    /\ vo.a.request.nonce = 2
    /\ get_nonce(ledger, vo.a.signer) = 2
    /\ ~vo.out.ret

(***************************************************************************)
(* Properties of service_unavailable, checked under SpecUnavailable.       *)
(***************************************************************************)
\* Piece i of a message is part of a project id: it is in a run of
\* non-whitespace pieces that follows one of the two prefixes.
InProjectId(msg, i) ==
    /\ msg[i] /= Space
    /\ \E j \in 1..(i - 1) :
          /\ msg[j] \in InfuraMarkers
          /\ \A l \in (j + 1)..i : msg[l] /= Space

\* The message with every piece of a project id replaced by the piece c.
WithProjectId(msg, c) == [i \in DOMAIN msg |-> IF InProjectId(msg, i) THEN c ELSE msg[i]]

\* The pieces of a message that are not part of a project id, in order.
RECURSIVE PublicPieces(_, _)
PublicPieces(msg, i) ==
    IF i > Len(msg) THEN <<>>
    ELSE IF InProjectId(msg, i) THEN PublicPieces(msg, i + 1)
    ELSE <<msg[i]>> \o PublicPieces(msg, i + 1)

\* C27: the response has status 503 and echoes the context; its error text is
\* the message with every project id replaced by the placeholder: a message
\* without project id is echoed as it is, the text outside project ids is kept,
\* in the error text a prefix is followed by the placeholder, by whitespace or by
\* nothing, and the error text does not depend on the project ids of the
\* message.
C27_ProjectIdRedacted ==
    vo.pc = "unavailable" =>
        LET msg == vo.a.error
            text == vo.out.json.error
        IN  /\ vo.out.status_code = 503
            /\ vo.out.json.context = vo.a.context
            /\ (\A i \in DOMAIN msg : ~InProjectId(msg, i)) => text = msg
            /\ PublicPieces(msg, 1) = SelectSeq(text, LAMBDA x : x /= Stripped)
            /\ \A i \in DOMAIN text :
                  (text[i] \in InfuraMarkers /\ i < Len(text))
                      => text[i + 1] \in {Stripped, Space}
            /\ \A c \in {"k", "q", InfuraHttp} :
                  service_unavailable(WithProjectId(msg, c), vo.a.context).json.error = text

\* C27 witness: the message holds a project id behind the websocket prefix and
\* text after it; the response shows the placeholder in its place.
C27_Witness ==
    /\ vo.pc = "unavailable"
    /\ vo.a.error = <<"a", InfuraWs, "f", "f">>
    /\ vo.out.json.error = <<"a", InfuraWs, Stripped>>
    /\ vo.out.status_code = 503

(***************************************************************************)
(* Properties of the runs of InputItemValidator.validate, checked under    *)
(* SpecWorkflow.                                                           *)
(***************************************************************************)
\* C28: a run of InputItemValidator.validate that does not pass ends with
\* False and a message in error: no run ends in an exception that nothing
\* catches, and none returns False with error unset. (The code breaks it: an
\* access input whose files do not resolve and that carries userdata reads
\* self.validate_inputs, an attribute that does not exist.)
C28_FailuresCarryMessage ==
    \A p \in Active :
        LET w == rq[p] IN
        w.index >= 0 =>
            /\ w.pc /= "crashed"
            /\ w.pc = "failed" =>
                  /\ Len(w.error) = 1
                  /\ w.error[1].error /= ""

(***************************************************************************)
(* Properties of the algorithm of a workflow, checked under SpecWorkflow.  *)
(***************************************************************************)
\* The calls made for the algorithm of the request, after the input items.
AlgoCalls(w) == ItemCalls(w, -1)

\* The order of the algorithm was verified, checked for replay and recorded.
AlgoOrderSettled(w) ==
    \E n \in DOMAIN AlgoCalls(w) :
        /\ n + 2 \in DOMAIN AlgoCalls(w)
        /\ AlgoCalls(w)[n] = "validate_order"
        /\ AlgoCalls(w)[n + 1] = "validate_transfer_not_used_for_other_service"
        /\ AlgoCalls(w)[n + 2] = "record_consume_request"

C30_RejectedLeavesLedgerAsBefore ==
    \A p \in Active : rq[p].pc = "failed" => ledger = rq[p].ledger_before

\* The rows after one use was recorded for each of the first n input items of
\* the request.
RECURSIVE WithItemsRecorded(_, _, _)
WithItemsRecorded(rows, w, n) ==
    IF n = 0 THEN rows
    ELSE LET item == all_data(w.data)[n] IN
         Upsert(WithItemsRecorded(rows, w, n - 1), item.documentId, item.serviceId,
                item.transferTxId, ConsumerAddress, 1)

\* The use of the algorithm of the request was recorded.
AlgoWasRecorded(w) ==
    /\ w.raised = None
    /\ \E j \in DOMAIN w.calls : w.calls[j] = <<"record_consume_request", -1>>

\* The rows a request has written so far: one use for each input item that
\* passed, and one for the algorithm once its order was settled.
WrittenBy(w) ==
    LET items == WithItemsRecorded(w.ledger_before, w, Len(w.validated_inputs)) IN
    IF AlgoWasRecorded(w)
    THEN Upsert(items, w.data.algorithm.documentId, w.data.algorithm.serviceId,
                w.data.algorithm.transferTxId, ConsumerAddress, 1)
    ELSE items

\* C30 amended: a rejected workflow keeps what it recorded. When the item at
\* index k, the algorithm or the output failed, the ledger is the one before the
\* request with one use recorded for each of the items 0..k-1 that passed (and
\* for the algorithm, when the failure came after its record); the step that
\* failed wrote nothing, so a request rejected at index 0 leaves the ledger as it
\* was.
C30_RejectedKeepsRecords ==
    \A p \in Active :
        LET w == rq[p] IN
        /\ ledger = WrittenBy(w)
        /\ w.pc = "failed" =>
              /\ w.index >= 0 => Len(w.validated_inputs) = w.index
              /\ w.index = -1 => Len(w.validated_inputs) = ItemCount(w)
              /\ Len(w.validated_inputs) = 0 => ledger = w.ledger_before
              /\ \A i \in 1..Len(w.validated_inputs) :
                    LET item == all_data(w.data)[i] IN
                    Uses(ledger, item.documentId, item.serviceId, item.transferTxId)
                        > Uses(w.ledger_before, item.documentId, item.serviceId,
                               item.transferTxId)

\* C30 witness: the additional dataset was rejected; the record of the main
\* dataset, which the ledger did not hold before the request, is in the ledger.
C30_Witness ==
    \E p \in Active :
        /\ rq[p].pc = "failed"
        /\ rq[p].index = 1
        /\ Uses(rq[p].ledger_before, rq[p].data.dataset.documentId,
                rq[p].data.dataset.serviceId, rq[p].data.dataset.transferTxId) = 0
        /\ Uses(ledger, rq[p].data.dataset.documentId,
                rq[p].data.dataset.serviceId, rq[p].data.dataset.transferTxId) = 1
        /\ ledger /= rq[p].ledger_before

(***************************************************************************)
(* The order of the checks of verify_order_tx, checked under SpecOrder.    *)
(***************************************************************************)
\* The errors of the checks made on a fetched receipt, in the order of the code.
CheckErrors ==
    <<TransactionFailed, NoOrderEvent, AmbiguousOrderEvent, AssetMismatch,
      ServiceMismatch, Expired, ExcessiveMarketFee, SenderMismatch,
      NoMatchingTransfer, InsufficientPayment>>

\* For each check, whether the arguments of the call violate it, each taken on
\* its own. The checks on the order event are read on the first OrderStarted log
\* of the receipt and are not violated by a receipt without one.
Violations(a) ==
    LET event_logs == processReceipt("OrderStarted", a.receipt)
        has_log == event_logs /= <<>>
        order_log == event_logs[1]
        mine == TransfersTo(a.contract.minter, processReceipt("Transfer", a.receipt))
    IN  << StatusFailed(a.receipt),
           ~has_log,
           Len(event_logs) > 1,
           ~AssetIdMatches(a.did, a.contract),
           has_log /\ ServiceIdDiffers(order_log, a.service),
           has_log /\ OrderExpired(a.service.timeout, a.now - order_log.args.timestamp),
           has_log /\ MarketFeeCollected(order_log)
                   /\ ~MarketFeeWithinMax(order_log,
                          calculateFee(a.amount, MAX_MARKET_FEE_PER_TOKEN)),
           has_log /\ SenderNotConsumerOrPayer(a.sender, a.tx, order_log),
           mine = <<>>,
           has_log /\ mine /= <<>>
                   /\ PaymentTooSmall(SumValues(mine), TargetAmount(a.amount, order_log)) >>

ViolatedChecks(a) ==
    LET violated == Violations(a) IN {k \in DOMAIN CheckErrors : violated[k]}

\* The earliest violated check, 0 when no check is violated.
FirstViolated(a) ==
    LET checks == ViolatedChecks(a) IN
    IF checks = {} THEN 0
    ELSE CHOOSE k \in checks : \A j \in checks : k <= j

\* The chain calls made when the call ends at check k (0: at the return): those
\* that the checks up to k need, and none of a later check.
CallsUpTo(a, k) ==
    LET fetched == FetchReceipt(a.fetch).calls
        events == fetched \o <<"minter", "OrderStarted.processReceipt">>
        order_log == processReceipt("OrderStarted", a.receipt)[1]
        fees == IF MarketFeeCollected(order_log)
                THEN <<"calculateFee", "calculateFee">> ELSE <<"calculateFee">>
    IN  IF k = 1 THEN fetched
        ELSE IF k \in 2..6 THEN events
        ELSE IF k = 7 THEN events \o fees
        ELSE IF k = 8 THEN events \o fees \o <<"get_transaction">>
        ELSE events \o fees \o <<"get_transaction", "Transfer.processReceipt">>

ReceiptFetched == vo.pc = "done" /\ FetchReceipt(vo.a.fetch).outcome = "receipt"

\* C31: when a fetched receipt violates several checks of verify_order_tx at
\* once, the error raised is the one of the earliest violated check in the order
\* reverted status, missing order event, multiple order events, asset mismatch,
\* service-index mismatch, expiry, excessive market fee, sender mismatch, no
\* matching transfer, insufficient payment; the call makes the chain calls of the
\* checks up to that one and none of a later check, and it returns only when no
\* check is violated.
C31_EarliestViolatedCheckRaised ==
    ReceiptFetched =>
        LET k == FirstViolated(vo.a) IN
        /\ k = 0 => vo.out.raised = None /\ vo.out.ret /= <<>>
        /\ k > 0 => vo.out.raised = CheckErrors[k] /\ vo.out.ret = <<>>
        /\ vo.out.calls = CallsUpTo(vo.a, k)

\* C31 witness: a receipt with one order event that violates the asset check,
\* the service-index check, the expiry and the transfer check at once was
\* rejected for the asset mismatch, with no call after the event decoding.
C31_Witness ==
    /\ ReceiptFetched
    /\ {4, 5, 6, 9} \subseteq ViolatedChecks(vo.a)
    /\ FirstViolated(vo.a) = 4
    /\ vo.out.raised = AssetMismatch
    /\ vo.out.calls[Len(vo.out.calls)] = "OrderStarted.processReceipt"

(***************************************************************************)
(* The algorithm policy of every input, checked under SpecPolicy.          *)
(***************************************************************************)
\* The errors of the algorithm policy of a service.
PolicyErrors ==
    {RawAlgorithmForbidden, "this algorithm is not from a trusted publisher",
     "this algorithm did is not trusted.", "filesChecksum for algorithm does not match",
     "containerSectionChecksum for algorithm does not match"}

\* The algorithm is one the privacy options pol trust: its owner is one of the
\* trusted publishers, when there are any, and it has an entry among the
\* trusted algorithms, when there are any, whose pinned checksums (those of the
\* last entry of the did) are the current ones.
TrustedBy(algo_data, pol) ==
    LET algorithms == Get(pol, "publisherTrustedAlgorithms", <<>>)
        publishers == Get(pol, "publisherTrustedAlgorithmPublishers", <<>>)
        did == algo_data.documentId
        entries == {i \in DOMAIN algorithms : algorithms[i].did = did}
        entry == algorithms[CHOOSE i \in entries : \A j \in entries : j <= i]
    IN  /\ publishers /= <<>> =>
              \E i \in DOMAIN publishers : publishers[i] = AssetOwner(did)
        /\ algorithms /= <<>> =>
              /\ entries /= {}
              /\ entry.filesChecksum
                    \in {<<>>, msg_hash(EncryptedFiles(did, algo_data.serviceId))}
              /\ entry.containerSectionChecksum \in {<<>>, msg_hash(ContainerOf(did))}

\* The algorithm of a request satisfies the privacy options pol: by its did the
\* trusted lists, without a did the permission for raw algorithms.
AlgorithmSatisfies(algo_data, pol) ==
    IF TruthyStr(algo_data.documentId) THEN TrustedBy(algo_data, pol)
    ELSE AllowsRaw(pol)

\* C32: in every finalized workflow the algorithm satisfies the algorithm policy
\* (trusted lists, or the permission for raw algorithms) of every input whose
\* service is a compute service, the main dataset and the further ones alike,
\* each against the privacy options of its own service; an input with an access
\* service is never refused for the algorithm.
C32_AlgorithmPolicyOfEveryInput ==
    \A p \in Active :
        LET w == rq[p] IN
        /\ \A i \in 0..(ItemCount(w) - 1) :
              /\ (ItemServiceType(w, i) = "compute"
                    /\ (w.pc = "done" \/ Len(w.validated_inputs) > i))
                    => AlgorithmSatisfies(w.data.algorithm, ItemPolicy(w, i))
              /\ (ItemServiceType(w, i) = "access" /\ w.pc = "failed" /\ w.index = i)
                    => w.error[1].error \notin PolicyErrors

\* C32 witness: a workflow was finalized whose two inputs have compute services
\* with different privacy options (the main one open, the further one with a
\* list of trusted algorithms that holds the algorithm).
C32_Witness ==
    \E p \in Active :
        /\ rq[p].pc = "done"
        /\ ItemCount(rq[p]) = 2
        /\ ItemServiceType(rq[p], 0) = "compute"
        /\ ItemServiceType(rq[p], 1) = "compute"
        /\ ItemPolicy(rq[p], 0) = OpenPolicy
        /\ ItemPolicy(rq[p], 1) = TrustALG
        /\ rq[p].data.algorithm.documentId = ALG
        /\ ~AlgorithmSatisfies(rq[p].data.algorithm, TrustPub1)

(***************************************************************************)
(* The order of the validators of a request, checked under SpecRequest.    *)
(***************************************************************************)
InValidation == vo.pc \in {"validate", "raised", "valid", "served"}

RBACRegistered == vo.a.rbac_server_url /= "" /\ vo.a.mapped

\* The validators evaluated so far are the first of the registered ones, in
\* order; only the last evaluated may have failed, and then validate raised;
\* with the RBAC validator registered it is the first, and its denial leaves the
\* signature rule and the chain verification uncalled.
ValidatorsInOrder ==
    InValidation =>
        /\ Len(vo.evaluated) <= Len(vo.validators)
        /\ \A i \in DOMAIN vo.evaluated :
              /\ vo.evaluated[i].validator = vo.validators[i]
              /\ vo.evaluated[i].fails => i = Len(vo.evaluated)
        /\ vo.pc = "raised" <=>
              (vo.evaluated /= <<>> /\ vo.evaluated[Len(vo.evaluated)].fails)
        /\ vo.pc = "raised" <=> vo.raised = ValidationException
        /\ vo.pc \in {"valid", "served"} =>
              /\ Len(vo.evaluated) = Len(vo.validators)
              /\ \A i \in DOMAIN vo.evaluated : ~vo.evaluated[i].fails
        /\ RBACRegistered => vo.validators = <<RBACValidator, CustomValidator>>
        /\ (RBACRegistered /\ vo.evaluated /= <<>> /\ vo.evaluated[1].fails) =>
              /\ vo.pc = "raised"
              /\ vo.calls = <<"rbac_service">>
        /\ \A j \in DOMAIN vo.calls :
              /\ vo.calls[j] = "verify_signature" =>
                    \A i \in 1..(j - 1) : vo.calls[i] = "rbac_service"
              /\ vo.calls[j] = "chain_verification" =>
                    /\ vo.pc = "served"
                    /\ j = Len(vo.calls)

\* The request is one the RBAC service is about to deny or has denied.
BeforeOrAtDenial ==
    /\ vo.pc \in {"validate", "raised"}
    /\ RBACRegistered
    /\ vo.evaluated \in {<<>>, <<[validator |-> RBACValidator, fails |-> TRUE]>>}

\* C33: CustomJsonRequest.validate evaluates its validators in the order of
\* registration and raises ValidationException at the first that fails, without
\* evaluating a later one. With an RBAC server configured and a request class
\* that is RBAC-mapped the RBAC validator is the first and the rules validator
\* the second: a request that the RBAC service denies is refused with no
\* signature rule evaluated (verify_signature is not called, and the nonce of
\* the address stays as it was up to the answer), and the chain verification
\* starts only after validate returned True.
C33_ValidatorsInRegistrationOrder ==
    /\ []ValidatorsInOrder
    /\ [][BeforeOrAtDenial => ledger' = ledger]_vars

\* C33 witness: with an RBAC server configured, a request of a mapped class that
\* carries a valid signature and a fresh nonce was denied by the RBAC service;
\* it is refused and the signature rule was not evaluated.
C33_Witness ==
    /\ vo.pc = "raised"
    /\ RBACRegistered
    /\ vo.evaluated = <<[validator |-> RBACValidator, fails |-> TRUE]>>
    /\ vo.calls = <<"rbac_service">>
    /\ SignatureRuleResult(ledger, vo.a).ret

====
